---- MODULE Spec2Model ----
(***************************************************************************)
(* LEAP screener (leap-screener/scripts/leap_screener.py): the scan loop   *)
(* of main, the per-ticker funnel of analyze_ticker, the option selector   *)
(* get_option_metrics and the scorer score_stock; and the posting          *)
(* scheduler (x-brand-operator/scripts/scheduler.py), whose clock is in    *)
(* hours.                                                                  *)
(*                                                                         *)
(* Numbers are fixed point integers:                                       *)
(*   growth ratios and upside   basis points      (0.10  -> 1000)          *)
(*   PEG                        hundredths        (2.0   -> 200)           *)
(*   EPS, strike, bid, ask      cents             (0.50  -> 50)            *)
(*   price, target price        dollars                                    *)
(*   market cap                 billions of dollars                        *)
(*   RSI                        points                                     *)
(*   drawdown, spread, move     hundredths of a percent (-35.0 -> -3500)   *)
(*   volume ratio, implied vol  hundredths        (1.5   -> 150)           *)
(*   sub-scores, score, iv_rank hundredths of a point (100.0 -> 10000)     *)
(* An Optional[float] is a tuple: None is <<>>, a present value x is <<x>>.*)
(* A raw provider value can also be NaN, which safe_float turns into None. *)
(***************************************************************************)
EXTENDS Integers, Sequences, FiniteSets, TLC

VARIABLES
    universe,              \* main: the ticker list after sorted(set(...))
    require_volume_spike,  \* main: args.require_volume_spike
    pc,                    \* position in main / analyze_ticker / get_option_metrics
    i,                     \* main: 1-based index of the ticker being scanned
    results,               \* main: results
    exit_status,           \* main: return value (None while running)
    info,                  \* analyze_ticker: tk.info of the current ticker
    hist,                  \* analyze_ticker: tk.history(...) of the current ticker
    qearn,                 \* analyze_ticker: answer of tk.quarterly_earnings
    ev,                    \* analyze_ticker: locals after the sanity checks
    sel,                   \* get_option_metrics: locals
    opt,                   \* analyze_ticker: opt, the dict get_option_metrics returned
    r,                     \* main: r, the StockResult analyze_ticker returned
    calls,                 \* the calls made while analysing the current ticker, in order
    report,                \* main: report, what build_report returned (None before)
    state,                 \* scheduler: the content of the state file
    clock,                 \* scheduler: the time of day, in hours
    out                    \* scheduler: out, what the last run printed

vars == <<universe, require_volume_spike, pc, i, results, exit_status,
          info, hist, qearn, ev, sel, opt, r, calls, report,
          state, clock, out>>

----------------------------------------------------------------------------
(* Optional values *)

None == <<>>
NaN == <<0, 0>>
Some(x) == <<x>>
IsSome(o) == o # None
Val(o) == o[1]

Abs(x) == IF x < 0 THEN -x ELSE x
Max2(a, b) == IF a >= b THEN a ELSE b
Min2(a, b) == IF a <= b THEN a ELSE b

RECURSIVE SumSeq(_)
SumSeq(s) == IF s = <<>> THEN 0 ELSE Head(s) + SumSeq(Tail(s))

SeqMin(s) == CHOOSE x \in {s[k] : k \in 1..Len(s)} : \A y \in {s[k] : k \in 1..Len(s)} : x <= y
SeqMax(s) == CHOOSE x \in {s[k] : k \in 1..Len(s)} : \A y \in {s[k] : k \in 1..Len(s)} : x >= y

----------------------------------------------------------------------------
(* Thresholds, leap_screener.py lines 41-57 *)

REV_GROWTH_MIN == 1000
EPS_GROWTH_MIN == 1500
PEG_MAX == 200
MARKET_CAP_MIN == 5
UPSIDE_MIN == 1500
RSI_MAX == 60
DRAWDOWN_MIN == -3500
LONG_DTE_MONTHS == 9
EPS_GROWTH_CAP == 40000
REV_GROWTH_CAP == 20000
EPS_VOLATILITY_MAX == 5

----------------------------------------------------------------------------
(* clamp and safe_float *)

ClampNone(v, low, high) == v

clamp(v, low, high) == Max2(low, Min2(high, v))

clamp100(v) == clamp(v, 0, 10000)

safe_float(v) == IF v = None \/ v = NaN THEN None ELSE v

----------------------------------------------------------------------------
(* get_technical_metrics.  hist is None (frame FALSE), or its length and   *)
(* the values the function reads off it: the last and the maximum close,  *)
(* the last RSI(14) of the ta library, the last 20-day mean volume and    *)
(* the last volume.                                                        *)

AbsentTech ==
    [price |-> None, rsi14 |-> None, drawdown_52w_pct |-> None,
     vol_ratio |-> None, vol_spike |-> None]

(* the test len(hist) < 30 left out *)
TechnicalMetricsOfShortHistory(h) ==
    IF ~h.frame \/ h.bars = 0
    THEN AbsentTech
    ELSE LET price == safe_float(h.close)
             rsi14 == safe_float(h.rsi)
             high_52w == safe_float(h.high)
             dd == IF IsSome(price) /\ IsSome(high_52w) /\ Val(high_52w) > 0
                   THEN Some((Val(price) * 10000) \div Val(high_52w) - 10000)
                   ELSE None
             v20 == safe_float(h.vol20)
             v0 == safe_float(h.vol)
             has_ratio == IsSome(v20) /\ Val(v20) > 0 /\ IsSome(v0)
         IN [price |-> price,
             rsi14 |-> rsi14,
             drawdown_52w_pct |-> dd,
             vol_ratio |-> IF has_ratio THEN Some((Val(v0) * 100) \div Val(v20)) ELSE None,
             vol_spike |-> IF has_ratio THEN Some(Val(v0) * 2 > Val(v20) * 3) ELSE None]

get_technical_metrics(h) ==
    IF ~h.frame \/ h.bars = 0 \/ h.bars < 30
    THEN AbsentTech
    ELSE LET price == safe_float(h.close)
             rsi14 == safe_float(h.rsi)
             high_52w == safe_float(h.high)
             dd == IF IsSome(price) /\ IsSome(high_52w) /\ Val(high_52w) > 0
                   THEN Some((Val(price) * 10000) \div Val(high_52w) - 10000)
                   ELSE None
             v20 == safe_float(h.vol20)
             v0 == safe_float(h.vol)
             has_ratio == IsSome(v20) /\ Val(v20) > 0 /\ IsSome(v0)
         IN [price |-> price,
             rsi14 |-> rsi14,
             drawdown_52w_pct |-> dd,
             vol_ratio |-> IF has_ratio THEN Some((Val(v0) * 100) \div Val(v20)) ELSE None,
             vol_spike |-> IF has_ratio THEN Some(Val(v0) * 2 > Val(v20) * 3) ELSE None]

----------------------------------------------------------------------------
(* analyze_ticker, lines 427-436: the fundamentals read off tk.info *)

ForwardGrowth(trailing_eps, forward_eps) ==
    IF IsSome(trailing_eps) /\ IsSome(forward_eps) /\ Abs(Val(trailing_eps)) > 1
    THEN Some(((Val(forward_eps) - Val(trailing_eps)) * 10000) \div Abs(Val(trailing_eps)))
    ELSE None

(* analyze_ticker, lines 438-483: the sanity checks.  Each flag is the tag *)
(* of the message the code appends.                                        *)

SharesFlag(inf) ==
    LET so == safe_float(inf.sharesOutstanding)
        fs == safe_float(inf.floatShares)
    IN IF IsSome(so) /\ Val(so) # 0 /\ IsSome(fs) /\ Val(fs) # 0
          /\ Val(fs) > 0 /\ Val(so) * 10 > Val(fs) * 13
       THEN <<"shares">> ELSE <<>>

(* the flagged value is set to None *)
NulledKeepsValue(suspect, v) == v

Nulled(suspect, v) == IF suspect THEN None ELSE v

RevCapped(rev) == IsSome(rev) /\ Val(rev) > REV_GROWTH_CAP

EpsCapped(g) == IsSome(g) /\ Abs(Val(g)) > EPS_GROWTH_CAP

LowBase(trailing_eps, forward_eps) ==
    /\ IsSome(trailing_eps) /\ Abs(Val(trailing_eps)) < 50
    /\ IsSome(forward_eps) /\ Val(forward_eps) > 500

PegFlag(peg) == IF IsSome(peg) /\ Val(peg) < 20 THEN <<"peg">> ELSE <<>>

DropNa(rows) == SelectSeq(rows, LAMBDA v : v # NaN /\ v # None)

LastFour(s) == IF Len(s) <= 4 THEN s ELSE SubSeq(s, Len(s) - 3, Len(s))

(* std / mean(|x|) > EPS_VOLATILITY_MAX over n values, in integers:       *)
(* n*sum(x^2) - sum(x)^2 > MAX^2 * sum(|x|)^2                               *)
EpsVolFlag(q) ==
    IF q.kind # "frame" \/ Len(q.rows) < 4 THEN <<>>
    ELSE LET eps_vals == LastFour(DropNa(q.rows))
             n == Len(eps_vals)
             xs == [k \in 1..n |-> Val(eps_vals[k])]
             sum == SumSeq(xs)
             sumsq == SumSeq([k \in 1..n |-> xs[k] * xs[k]])
             sumabs == SumSeq([k \in 1..n |-> Abs(xs[k])])
         IN IF n >= 4 /\ sumabs > 0
               /\ n * sumsq - sum * sum
                    > EPS_VOLATILITY_MAX * EPS_VOLATILITY_MAX * sumabs * sumabs
            THEN <<"eps_vol">> ELSE <<>>

Upside(target_price, price) ==
    IF IsSome(target_price) /\ IsSome(price) /\ Val(price) > 0
    THEN Some((Val(target_price) * 10000) \div Val(price) - 10000)
    ELSE None

(* the low-base rule skipped once the magnitude rule has nulled the growth *)
EvidenceFirstRuleOnly(inf, tech, q) ==
    LET rev0 == safe_float(inf.revenueGrowth)
        eps0 == safe_float(inf.earningsGrowth)
        trailing_eps == safe_float(inf.trailingEps)
        forward_eps == safe_float(inf.forwardEps)
        fwd0 == ForwardGrowth(trailing_eps, forward_eps)
        peg0 == safe_float(inf.pegRatio)
        fwd1 == Nulled(EpsCapped(fwd0), fwd0)
        flags == SharesFlag(inf)
                 \o (IF RevCapped(rev0) THEN <<"rev">> ELSE <<>>)
                 \o (IF EpsCapped(eps0) THEN <<"eps_q">> ELSE <<>>)
                 \o (IF EpsCapped(fwd0) THEN <<"eps_fwd">> ELSE <<>>)
                 \o (IF ~EpsCapped(fwd0) /\ LowBase(trailing_eps, forward_eps)
                     THEN <<"low_base">> ELSE <<>>)
                 \o PegFlag(peg0)
                 \o EpsVolFlag(q)
        tmean == safe_float(inf.targetMeanPrice)
        target_price == IF tmean = None THEN safe_float(inf.targetMedianPrice) ELSE tmean
    IN [price |-> tech.price,
        rev_growth |-> Nulled(RevCapped(rev0), rev0),
        eps_growth |-> Nulled(EpsCapped(eps0), eps0),
        eps_growth_forward |-> Nulled(LowBase(trailing_eps, forward_eps), fwd1),
        trailing_eps |-> trailing_eps,
        forward_eps |-> forward_eps,
        peg |-> IF peg0 = None THEN safe_float(inf.trailingPegRatio) ELSE peg0,
        market_cap |-> safe_float(inf.marketCap),
        upside |-> Upside(target_price, tech.price),
        tech |-> tech,
        sanity_flags |-> flags]


(* the low-base rule nulling forward EPS along with its growth *)
EvidenceNullsForwardEps(inf, tech, q) ==
    LET rev0 == safe_float(inf.revenueGrowth)
        eps0 == safe_float(inf.earningsGrowth)
        trailing_eps == safe_float(inf.trailingEps)
        forward_eps == safe_float(inf.forwardEps)
        fwd0 == ForwardGrowth(trailing_eps, forward_eps)
        peg0 == safe_float(inf.pegRatio)
        fwd1 == Nulled(EpsCapped(fwd0), fwd0)
        flags == SharesFlag(inf)
                 \o (IF RevCapped(rev0) THEN <<"rev">> ELSE <<>>)
                 \o (IF EpsCapped(eps0) THEN <<"eps_q">> ELSE <<>>)
                 \o (IF EpsCapped(fwd0) THEN <<"eps_fwd">> ELSE <<>>)
                 \o (IF LowBase(trailing_eps, forward_eps) THEN <<"low_base">> ELSE <<>>)
                 \o PegFlag(peg0)
                 \o EpsVolFlag(q)
        tmean == safe_float(inf.targetMeanPrice)
        target_price == IF tmean = None THEN safe_float(inf.targetMedianPrice) ELSE tmean
    IN [price |-> tech.price,
        rev_growth |-> Nulled(RevCapped(rev0), rev0),
        eps_growth |-> Nulled(EpsCapped(eps0), eps0),
        eps_growth_forward |-> Nulled(LowBase(trailing_eps, forward_eps), fwd1),
        trailing_eps |-> trailing_eps,
        forward_eps |-> Nulled(LowBase(trailing_eps, forward_eps), forward_eps),
        peg |-> IF peg0 = None THEN safe_float(inf.trailingPegRatio) ELSE peg0,
        market_cap |-> safe_float(inf.marketCap),
        upside |-> Upside(target_price, tech.price),
        tech |-> tech,
        sanity_flags |-> flags]


(* The locals of analyze_ticker at line 494, from tk.info, the technical  *)
(* metrics and tk.quarterly_earnings.                                      *)
Evidence(inf, tech, q) ==
    LET rev0 == safe_float(inf.revenueGrowth)
        eps0 == safe_float(inf.earningsGrowth)
        trailing_eps == safe_float(inf.trailingEps)
        forward_eps == safe_float(inf.forwardEps)
        fwd0 == ForwardGrowth(trailing_eps, forward_eps)
        peg0 == safe_float(inf.pegRatio)
        fwd1 == Nulled(EpsCapped(fwd0), fwd0)
        flags == SharesFlag(inf)
                 \o (IF RevCapped(rev0) THEN <<"rev">> ELSE <<>>)
                 \o (IF EpsCapped(eps0) THEN <<"eps_q">> ELSE <<>>)
                 \o (IF EpsCapped(fwd0) THEN <<"eps_fwd">> ELSE <<>>)
                 \o (IF LowBase(trailing_eps, forward_eps) THEN <<"low_base">> ELSE <<>>)
                 \o PegFlag(peg0)
                 \o EpsVolFlag(q)
        tmean == safe_float(inf.targetMeanPrice)
        target_price == IF tmean = None THEN safe_float(inf.targetMedianPrice) ELSE tmean
    IN [price |-> tech.price,
        rev_growth |-> Nulled(RevCapped(rev0), rev0),
        eps_growth |-> Nulled(EpsCapped(eps0), eps0),
        eps_growth_forward |-> Nulled(LowBase(trailing_eps, forward_eps), fwd1),
        trailing_eps |-> trailing_eps,
        forward_eps |-> forward_eps,
        peg |-> IF peg0 = None THEN safe_float(inf.trailingPegRatio) ELSE peg0,
        market_cap |-> safe_float(inf.marketCap),
        upside |-> Upside(target_price, tech.price),
        tech |-> tech,
        sanity_flags |-> flags]

----------------------------------------------------------------------------
(* analyze_ticker, lines 495-507 and 533-543: the layer conditions *)

(* and in place of or *)
EpsPassBoth(e) ==
    /\ IsSome(e.eps_growth) /\ Val(e.eps_growth) > EPS_GROWTH_MIN
    /\ IsSome(e.eps_growth_forward) /\ Val(e.eps_growth_forward) > EPS_GROWTH_MIN

EpsPass(e) ==
    \/ IsSome(e.eps_growth) /\ Val(e.eps_growth) > EPS_GROWTH_MIN
    \/ IsSome(e.eps_growth_forward) /\ Val(e.eps_growth_forward) > EPS_GROWTH_MIN

(* the upside clause left out *)
Layer1WithoutUpside(e) ==
    /\ IsSome(e.rev_growth) /\ Val(e.rev_growth) > REV_GROWTH_MIN
    /\ EpsPass(e)
    /\ IsSome(e.peg) /\ Val(e.peg) < PEG_MAX
    /\ IsSome(e.market_cap) /\ Val(e.market_cap) > MARKET_CAP_MIN

Layer1(e) ==
    /\ IsSome(e.rev_growth) /\ Val(e.rev_growth) > REV_GROWTH_MIN
    /\ EpsPass(e)
    /\ IsSome(e.peg) /\ Val(e.peg) < PEG_MAX
    /\ IsSome(e.market_cap) /\ Val(e.market_cap) > MARKET_CAP_MIN
    /\ IsSome(e.upside) /\ Val(e.upside) > UPSIDE_MIN

(* the volume spike required whatever the flag *)
Layer2AlwaysStrict(tech, strict) ==
    /\ IsSome(tech.rsi14) /\ Val(tech.rsi14) < RSI_MAX
    /\ IsSome(tech.drawdown_52w_pct) /\ Val(tech.drawdown_52w_pct) > DRAWDOWN_MIN
    /\ IsSome(tech.vol_spike) /\ Val(tech.vol_spike)

Layer2(tech, strict) ==
    /\ IsSome(tech.rsi14) /\ Val(tech.rsi14) < RSI_MAX
    /\ IsSome(tech.drawdown_52w_pct) /\ Val(tech.drawdown_52w_pct) > DRAWDOWN_MIN
    /\ (strict => (IsSome(tech.vol_spike) /\ Val(tech.vol_spike)))

----------------------------------------------------------------------------
(* pick_atm_call.  calls is the chain's rows in the provider's order; the *)
(* stable sort by (dist ascending, openInterest descending) puts first    *)
(* the earliest row among those with the least distance and, at that      *)
(* distance, the most open interest.  sort_values keeps rows whose        *)
(* openInterest is NaN after the others of the same distance               *)
(* (na_position 'last').                                                   *)

Dist(c, spot) == Abs(Val(c.strike) - spot * 100)

MoreOpen(a, b) ==
    /\ a.openInterest # NaN
    /\ b.openInterest = NaN \/ Val(a.openInterest) > Val(b.openInterest)

(* openInterest sorted ascending *)
BeforeLeastOpen(a, b, spot) ==
    \/ Dist(a, spot) < Dist(b, spot)
    \/ Dist(a, spot) = Dist(b, spot) /\ MoreOpen(b, a)

Before(a, b, spot) ==
    \/ Dist(a, spot) < Dist(b, spot)
    \/ Dist(a, spot) = Dist(b, spot) /\ MoreOpen(a, b)

pick_atm_call(chain, spot) ==
    IF chain = <<>> THEN None
    ELSE LET k == CHOOSE k \in 1..Len(chain) :
                    /\ \A j \in 1..Len(chain) : ~Before(chain[j], chain[k], spot)
                    /\ \A j \in 1..(k - 1) : Before(chain[k], chain[j], spot)
         IN Some(chain[k])

----------------------------------------------------------------------------
(* get_option_metrics: the dicts it returns *)

OptFail(reason) ==
    [layer3_pass |-> FALSE, reason |-> reason, expiry |-> None, strike |-> None,
     bid |-> None, ask |-> None, spread_pct |-> None, iv_rank |-> None,
     required_move_for_2x_pct |-> None]

(* len(atm_ivs) >= 3 in place of >= 2 *)
IvRankNeedsThree(iv_now, atm_ivs) ==
    IF IsSome(iv_now) /\ Len(atm_ivs) >= 3 /\ SeqMax(atm_ivs) > SeqMin(atm_ivs)
    THEN Some(clamp100(((Val(iv_now) - SeqMin(atm_ivs)) * 10000)
                         \div (SeqMax(atm_ivs) - SeqMin(atm_ivs))))
    ELSE None

(* the clamp of line 325 left out *)
IvRankUnclamped(iv_now, atm_ivs) ==
    IF IsSome(iv_now) /\ Len(atm_ivs) >= 2 /\ SeqMax(atm_ivs) > SeqMin(atm_ivs)
    THEN Some(((Val(iv_now) - SeqMin(atm_ivs)) * 10000)
                \div (SeqMax(atm_ivs) - SeqMin(atm_ivs)))
    ELSE None

(* lines 318-325 *)
IvRank(iv_now, atm_ivs) ==
    IF IsSome(iv_now) /\ Len(atm_ivs) >= 2 /\ SeqMax(atm_ivs) > SeqMin(atm_ivs)
    THEN Some(clamp100(((Val(iv_now) - SeqMin(atm_ivs)) * 10000)
                         \div (SeqMax(atm_ivs) - SeqMin(atm_ivs))))
    ELSE None

(* premium taken as the ask in place of the bid/ask midpoint *)
OptMetricsAtAsk(chosen_call, expiry, atm_ivs, spot) ==
    LET strike == safe_float(chosen_call.strike)
        bid == safe_float(chosen_call.bid)
        ask == safe_float(chosen_call.ask)
        iv_now == safe_float(chosen_call.impliedVolatility)
        quoted == IsSome(bid) /\ IsSome(ask) /\ Val(ask) > 0
    IN [layer3_pass |-> TRUE,
        reason |-> "OK",
        expiry |-> Some(expiry),
        strike |-> strike,
        bid |-> bid,
        ask |-> ask,
        spread_pct |-> IF quoted /\ Val(bid) + Val(ask) > 0
                       THEN Some(((Val(ask) - Val(bid)) * 20000) \div (Val(bid) + Val(ask)))
                       ELSE None,
        iv_rank |-> IvRank(iv_now, atm_ivs),
        required_move_for_2x_pct |->
            IF IsSome(strike) /\ quoted /\ spot # 0 /\ spot > 0
            THEN Some(((Val(strike) + 2 * Val(ask)) * 100) \div spot - 10000)
            ELSE None]

(* lines 305-342 *)
OptMetrics(chosen_call, expiry, atm_ivs, spot) ==
    LET strike == safe_float(chosen_call.strike)
        bid == safe_float(chosen_call.bid)
        ask == safe_float(chosen_call.ask)
        iv_now == safe_float(chosen_call.impliedVolatility)
        quoted == IsSome(bid) /\ IsSome(ask) /\ Val(ask) > 0
    IN [layer3_pass |-> TRUE,
        reason |-> "OK",
        expiry |-> Some(expiry),
        strike |-> strike,
        bid |-> bid,
        ask |-> ask,
        spread_pct |-> IF quoted /\ Val(bid) + Val(ask) > 0
                       THEN Some(((Val(ask) - Val(bid)) * 20000) \div (Val(bid) + Val(ask)))
                       ELSE None,
        iv_rank |-> IvRank(iv_now, atm_ivs),
        required_move_for_2x_pct |->
            IF IsSome(strike) /\ quoted /\ spot # 0 /\ spot > 0
            THEN Some(((Val(strike) + Val(bid) + Val(ask)) * 100) \div spot - 10000)
            ELSE None]

----------------------------------------------------------------------------
(* score_stock *)

OrElse(o, d) == IF o = None THEN d ELSE Val(o)

(* x or d: None and 0 both give d *)
Truthy(o, d) == IF o = None \/ Val(o) = 0 THEN d ELSE Val(o)

(* 1000 * log10 of a market cap in dollars, the cap given in billions *)
Log10Milli(billions) ==
    CASE billions = 1 -> 9000
      [] billions = 5 -> 9699
      [] billions = 50 -> 10699
      [] billions = 5000 -> 12699
      [] OTHER -> 0

(* the band of the comment at line 378, [-15, -5], in place of [-25, -5] *)
DrawdownScoreNarrowBand(dd) ==
    IF dd < -4000 THEN 500
    ELSE IF -1500 <= dd /\ dd <= -500 THEN 9000
    ELSE IF dd < -2500 THEN 5000
    ELSE 4000

DrawdownScore(dd) ==
    IF dd < -4000 THEN 500
    ELSE IF -2500 <= dd /\ dd <= -500 THEN 9000
    ELSE IF dd < -2500 THEN 5000
    ELSE 4000

score_stock(m) ==
    LET s_rev == clamp100(((Truthy(m.revenue_growth, 0) - 500) * 10000) \div 3000)
        s_eps == clamp100(((Truthy(m.eps_growth, 0) - 500) * 10000) \div 4000)
        s_peg == clamp100(((200 - OrElse(m.peg, 200)) * 10000) \div 150)
        s_mcap == clamp100(((Log10Milli(Truthy(m.market_cap, 0)) - 9000) * 10000) \div 3000)
        s_fund == (s_rev + s_eps + s_peg + s_mcap) \div 4
        s_val == clamp100(((200 - OrElse(m.peg, 200)) * 10000) \div 200)
        s_rsi == clamp100(((55 - OrElse(m.rsi14, 60)) * 10000) \div 25)
        s_dd == DrawdownScore(OrElse(m.drawdown_52w_pct, 0))
        s_vol == clamp100(((Truthy(m.vol_ratio, 100) - 80) * 10000) \div 120)
        s_tech == (s_rsi + s_dd + s_vol) \div 3
        s_cat == clamp100(((Truthy(m.upside, 0) - 1000) * 10000) \div 5000)
        s_spread == clamp100(((2000 - OrElse(m.call_spread_pct, 2000)) * 10000) \div 2000)
        s_move == clamp100(((8000 - OrElse(m.required_move_for_2x_pct, 8000)) * 10000) \div 8000)
        s_iv == IF m.iv_rank = None THEN 5000
                ELSE clamp100(10000 - (Abs(Val(m.iv_rank) - 3500) * 22) \div 10)
        s_opt == (s_spread + s_move + s_iv) \div 3
        final == (s_fund * 25 + s_val * 20 + s_tech * 15 + s_cat * 20 + s_opt * 20) \div 100
    IN clamp100(final)

(* analyze_ticker, lines 598-616 *)
BestEpsGrowth(e) ==
    IF IsSome(e.eps_growth_forward)
       /\ (e.eps_growth = None \/ Val(e.eps_growth_forward) > Val(e.eps_growth))
    THEN e.eps_growth_forward
    ELSE e.eps_growth

Metrics(e, o) ==
    [revenue_growth |-> e.rev_growth,
     eps_growth |-> BestEpsGrowth(e),
     peg |-> e.peg,
     market_cap |-> e.market_cap,
     upside |-> e.upside,
     rsi14 |-> e.tech.rsi14,
     drawdown_52w_pct |-> e.tech.drawdown_52w_pct,
     vol_ratio |-> e.tech.vol_ratio,
     call_spread_pct |-> o.spread_pct,
     iv_rank |-> o.iv_rank,
     required_move_for_2x_pct |-> o.required_move_for_2x_pct]

----------------------------------------------------------------------------
(* The StockResult records analyze_ticker returns *)

StockResult(ticker, score, p1, p2, p3, reason, e, o) ==
    [ticker |-> ticker, score |-> score,
     layer1_pass |-> p1, layer2_pass |-> p2, layer3_pass |-> p3,
     reason |-> reason,
     current_price |-> e.price,
     revenue_growth |-> e.rev_growth,
     eps_growth |-> e.eps_growth,
     eps_growth_forward |-> e.eps_growth_forward,
     trailing_eps |-> e.trailing_eps,
     forward_eps |-> e.forward_eps,
     peg |-> e.peg,
     market_cap |-> e.market_cap,
     upside |-> e.upside,
     rsi14 |-> e.tech.rsi14,
     drawdown_52w_pct |-> e.tech.drawdown_52w_pct,
     vol_spike |-> e.tech.vol_spike,
     vol_ratio |-> e.tech.vol_ratio,
     leap_expiry |-> o.expiry,
     leap_strike |-> o.strike,
     call_bid |-> o.bid,
     call_ask |-> o.ask,
     call_spread_pct |-> o.spread_pct,
     iv_rank |-> o.iv_rank,
     required_move_for_2x_pct |-> o.required_move_for_2x_pct,
     sanity_flags |-> IF e.sanity_flags = <<>> THEN None ELSE Some(e.sanity_flags)]

(* the dataclass defaults, lines 68-88 *)
NoEvidence ==
    [price |-> None, rev_growth |-> None, eps_growth |-> None,
     eps_growth_forward |-> None, trailing_eps |-> None, forward_eps |-> None,
     peg |-> None, market_cap |-> None, upside |-> None, tech |-> AbsentTech,
     sanity_flags |-> <<>>]

NoOption == OptFail("")

(* lines 509-531 *)
Layer1Failed(ticker, e) ==
    StockResult(ticker, 0, FALSE, FALSE, FALSE, <<"failed Layer 1 fundamentals">>, e, NoOption)

(* the flags of the Layer 3 block pasted with layer1_pass and layer3_pass set *)
Layer2FailedFlagSlip(ticker, e) ==
    StockResult(ticker, 0, FALSE, TRUE, FALSE, <<"failed Layer 2 technicals">>, e, NoOption)

(* lines 546-568 *)
Layer2Failed(ticker, e) ==
    StockResult(ticker, 0, TRUE, FALSE, FALSE, <<"failed Layer 2 technicals">>, e, NoOption)

(* the Layer 3 failure built like the handler's result, evidence dropped *)
Layer3FailedBare(ticker, e, o) ==
    StockResult(ticker, 0, TRUE, TRUE, FALSE, <<"failed Layer 3 options", o.reason>>,
                NoEvidence, NoOption)

(* lines 574-596 *)
Layer3Failed(ticker, e, o) ==
    StockResult(ticker, 0, TRUE, TRUE, FALSE, <<"failed Layer 3 options", o.reason>>, e, NoOption)

(* lines 617-647 *)
Passed(ticker, e, o) ==
    StockResult(ticker, score_stock(Metrics(e, o)), TRUE, TRUE, TRUE, <<"passed all layers">>, e, o)

(* lines 649-657 *)
ProcessingFailed(ticker, detail) ==
    StockResult(ticker, 0, FALSE, FALSE, FALSE, <<"processing failed", detail>>,
                NoEvidence, NoOption)

----------------------------------------------------------------------------
(* get_option_metrics, lines 220-259.  An expiration string is its format *)
(* and, for a %Y-%m-%d string, its date in days from today.                *)

Today == 0

Cutoff == Today + LONG_DTE_MONTHS * 30

Ymd(day) == [fmt |-> "ymd", day |-> day]
Junk == [fmt |-> "junk", day |-> 0]

(* the comparison with the cutoff left out *)
EligibleAnyDate(d) == d.fmt = "ymd"

(* dd >= cutoff in place of dd > cutoff *)
EligibleFromCutoff(d) == d.fmt = "ymd" /\ d.day >= Cutoff

(* strptime raises on a junk string and the loop goes on to the next one *)
Eligible(d) == d.fmt = "ymd" /\ d.day > Cutoff

(* the sort of line 258 left out: the provider's listing order *)
ListedOrder(options) ==
    LET kept == SelectSeq(options, Eligible)
    IN [k \in 1..Len(kept) |-> kept[k].day]

valid_expiries(options) ==
    LET kept == SelectSeq(options, Eligible)
    IN SortSeq([k \in 1..Len(kept) |-> kept[k].day], LAMBDA a, b : a < b)

NoSel ==
    [options |-> <<>>, valid_expiries |-> <<>>, preferred_expiry |-> 0, k |-> 0,
     atm_ivs |-> <<>>, chosen_call |-> None]

(* lines 268-274: what one answered lookup of the first loop leaves behind *)
CollectIv(atm_ivs, atm) ==
    LET iv == IF atm = None THEN None ELSE safe_float(Val(atm).impliedVolatility)
    IN IF IsSome(iv) /\ Val(iv) > 0 THEN Append(atm_ivs, Val(iv)) ELSE atm_ivs

(* the substitute passed whatever the price *)
SpotAlwaysSubstitute(e) == 0

Spot(e) == IF e.price = None \/ Val(e.price) = 0 THEN 0 ELSE Val(e.price)

----------------------------------------------------------------------------
(* Calls, in the order they are made *)

Call(name, arg, raised) == [call |-> name, arg |-> arg, raised |-> raised, chain |-> <<>>]

(* tk.option_chain(expiry) answered with the call chain *)
Lookup(expiry, chain) == [call |-> "option_chain", arg |-> expiry, raised |-> FALSE, chain |-> chain]

Sleep == Call("sleep", 0, FALSE)

Made(name) == \E k \in 1..Len(calls) : calls[k].call = name

----------------------------------------------------------------------------
(* What the provider answers for one ticker: the fields of tk.info the    *)
(* code reads, the price history and tk.quarterly_earnings.                *)

MaxUniverse == 2
MaxDeviations == 2
MaxListed == 3

Tickers == <<"AAPL", "AMD", "NVDA">>

(* main, lines 787-791: sorted(set(...)) of at most MaxUniverse tickers *)
Universes(n) ==
    {SelectSeq(Tickers, LAMBDA t : t \in S) :
        S \in {S \in SUBSET {Tickers[k] : k \in 1..Len(Tickers)} : Cardinality(S) <= n}}

Hist(bars, close, high, rsi, vol20, vol) ==
    [frame |-> TRUE, bars |-> bars, close |-> close, high |-> high, rsi |-> rsi,
     vol20 |-> vol20, vol |-> vol]

NoHist == [frame |-> FALSE, bars |-> 0, close |-> None, high |-> None, rsi |-> None,
           vol20 |-> None, vol |-> None]

EmptyHist == Hist(0, None, None, None, None, None)

BaseHist == Hist(250, Some(100), Some(125), Some(45), Some(1000), Some(1000))

Quarterly(kind, rows) == [kind |-> kind, rows |-> rows]

BaseAnswer ==
    [revenueGrowth |-> Some(4500),
     earningsGrowth |-> None,
     eps |-> [trailingEps |-> Some(200), forwardEps |-> Some(240)],
     pegRatio |-> Some(120),
     trailingPegRatio |-> None,
     shares |-> [sharesOutstanding |-> None, floatShares |-> None],
     marketCap |-> Some(50),
     target |-> [targetMeanPrice |-> Some(118), targetMedianPrice |-> None],
     hist |-> BaseHist,
     qearn |-> Quarterly("frame", <<Some(50), Some(55), Some(60), Some(65)>>)]

Alternatives ==
    [revenueGrowth |-> {None, NaN, Some(1000), Some(20000), Some(25000)},
     earningsGrowth |-> {Some(1500), Some(2000), Some(50000), Some(-50000)},
     eps |-> {[trailingEps |-> t, forwardEps |-> f] :
                 t \in {None, Some(0), Some(20), Some(100), Some(200)},
                 f \in {None, Some(240), Some(600)}},
     pegRatio |-> {None, Some(10), Some(20), Some(200), Some(250)},
     trailingPegRatio |-> {Some(10), Some(150)},
     shares |-> {[sharesOutstanding |-> Some(1000), floatShares |-> Some(700)],
                 [sharesOutstanding |-> Some(1300), floatShares |-> Some(1000)],
                 [sharesOutstanding |-> Some(1000), floatShares |-> Some(0)]},
     marketCap |-> {None, Some(5), Some(5000)},
     target |-> {[targetMeanPrice |-> None, targetMedianPrice |-> None],
                 [targetMeanPrice |-> None, targetMedianPrice |-> Some(130)],
                 [targetMeanPrice |-> Some(115), targetMedianPrice |-> Some(130)],
                 [targetMeanPrice |-> Some(300), targetMedianPrice |-> None]},
     hist |-> {NoHist, EmptyHist,
               Hist(29, Some(100), Some(125), Some(45), Some(1000), Some(1000)),
               Hist(30, Some(100), Some(125), Some(45), Some(1000), Some(1000)),
               Hist(250, Some(100), Some(125), Some(45), NaN, Some(1000)),
               Hist(250, Some(100), Some(125), Some(45), Some(1000), Some(1501)),
               Hist(250, Some(100), Some(125), Some(60), Some(1000), Some(1000)),
               Hist(250, Some(100), Some(125), NaN, Some(1000), Some(1000)),
               Hist(250, Some(100), Some(200), Some(45), Some(1000), Some(1000)),
               Hist(250, Some(65), Some(100), Some(45), Some(1000), Some(1000)),
               Hist(250, Some(82), Some(100), Some(30), Some(1000), Some(2000)),
               Hist(250, Some(100), Some(125), Some(45), Some(1000), Some(1500)),
               Hist(250, Some(100), Some(100), Some(45), Some(0), Some(1000)),
               Hist(250, NaN, Some(125), Some(45), Some(1000), Some(1000))},
     qearn |-> {Quarterly("raise", <<>>),
                Quarterly("none", <<>>),
                Quarterly("frame", <<Some(50), NaN, Some(60), Some(65)>>),
                Quarterly("frame", <<Some(10), Some(-100), Some(100), Some(-100), Some(100)>>)}]

(* every answer that differs from BaseAnswer in at most n of its parts *)
RECURSIVE Answers(_)
Answers(n) ==
    IF n = 0 THEN {BaseAnswer}
    ELSE LET B == Answers(n - 1)
         IN B \cup UNION {UNION {{[x EXCEPT ![f] = v] : v \in Alternatives[f]} :
                                    f \in DOMAIN Alternatives} : x \in B}

InfoOf(a) ==
    [revenueGrowth |-> a.revenueGrowth,
     earningsGrowth |-> a.earningsGrowth,
     trailingEps |-> a.eps.trailingEps,
     forwardEps |-> a.eps.forwardEps,
     pegRatio |-> a.pegRatio,
     trailingPegRatio |-> a.trailingPegRatio,
     sharesOutstanding |-> a.shares.sharesOutstanding,
     floatShares |-> a.shares.floatShares,
     marketCap |-> a.marketCap,
     targetMeanPrice |-> a.target.targetMeanPrice,
     targetMedianPrice |-> a.target.targetMedianPrice]

NoInfo ==
    [revenueGrowth |-> None, earningsGrowth |-> None, trailingEps |-> None,
     forwardEps |-> None, pegRatio |-> None, trailingPegRatio |-> None,
     sharesOutstanding |-> None, floatShares |-> None, marketCap |-> None,
     targetMeanPrice |-> None, targetMedianPrice |-> None]

NoQuarterly == Quarterly("none", <<>>)

(* Call contracts of a chain: the columns the code reads *)
Contract(strike, bid, ask, iv, oi) ==
    [strike |-> Some(strike), bid |-> bid, ask |-> ask, impliedVolatility |-> iv,
     openInterest |-> Some(oi)]

CallA == Contract(10500, Some(800), Some(900), Some(40), 10)
CallB == Contract(9500, Some(1200), Some(1300), Some(30), 50)
CallC == Contract(12000, NaN, Some(0), NaN, 0)
CallD == Contract(10000, Some(900), Some(1000), Some(50), 1)

(* expiration listings of at most n distinct strings *)
ExpStrings == {Junk, Ymd(Cutoff), Ymd(Cutoff + 1), Ymd(300), Ymd(400)}

Distinct(s) == \A a, b \in 1..Len(s) : a # b => s[a] # s[b]

RECURSIVE Listings(_)
Listings(n) ==
    IF n = 0 THEN {<<>>}
    ELSE LET L == Listings(n - 1)
         IN L \cup {m \in {Append(l, d) : l \in L, d \in ExpStrings} :
                       Len(m) = n /\ Distinct(m)}

(* The answers each specification draws from.  Scan: a whole scan over    *)
(* tickers with few answers each.  Funnel: one ticker, every answer        *)
(* within MaxDeviations of the base.  Option: one ticker that reaches the  *)
(* option selector, every listing and chain.                               *)

ScanDomain ==
    [universes |-> Universes(MaxUniverse),
     answers |-> {BaseAnswer,
                  [BaseAnswer EXCEPT !.revenueGrowth = Some(25000)],
                  [BaseAnswer EXCEPT !.hist = EmptyHist],
                  [BaseAnswer EXCEPT !.qearn = Quarterly("raise", <<>>)],
                  [BaseAnswer EXCEPT !.hist =
                      Hist(250, Some(100), Some(125), Some(60), Some(1000), Some(1000))]},
     listings |-> {<<>>, <<Ymd(300)>>},
     chains |-> {<<>>, <<CallA>>}]

FunnelDomain ==
    [universes |-> {<<>>, <<Tickers[1]>>},
     answers |-> Answers(MaxDeviations),
     listings |-> {<<>>, <<Ymd(Cutoff), Junk>>, <<Ymd(300)>>},
     chains |-> {<<>>, <<CallA>>, <<CallC>>}]

(* chains of at most n rows, for the contract selection: strikes on both   *)
(* sides of the spot, open interest missing, zero or positive              *)
MaxChain == 3

PickContracts ==
    {[Contract(strike, Some(800), Some(900), Some(40), 0) EXCEPT !.openInterest = oi] :
        strike \in {9500, 10500, 11000}, oi \in {NaN, Some(0), Some(7)}}

RECURSIVE Chains(_)
Chains(n) ==
    IF n = 0 THEN {<<>>}
    ELSE LET C == Chains(n - 1)
         IN C \cup {Append(c, x) : c \in {c \in C : Len(c) = n - 1}, x \in PickContracts}

PickDomain ==
    [universes |-> {<<>>, <<Tickers[1]>>},
     answers |-> {BaseAnswer,
                  [BaseAnswer EXCEPT !.hist =
                      Hist(250, Some(102), Some(125), Some(45), Some(1000), Some(1000))]},
     listings |-> {<<>>, <<Ymd(300)>>},
     chains |-> Chains(MaxChain)]

(* one-contract chains over every kind of quote: bid and ask missing, zero *)
(* or positive                                                             *)
QuoteChains ==
    {<<>>} \cup
    {<<Contract(strike, bid, ask, Some(40), 10)>> :
        strike \in {9000, 10500}, bid \in {NaN, Some(0), Some(800)},
        ask \in {None, NaN, Some(0), Some(900)}}

QuoteDomain ==
    [universes |-> {<<>>, <<Tickers[1]>>},
     answers |-> {BaseAnswer,
                  [BaseAnswer EXCEPT !.hist =
                      Hist(250, Some(102), Some(125), Some(45), Some(1000), Some(1000))],
                  [BaseAnswer EXCEPT !.hist =
                      Hist(250, Some(82), Some(100), Some(30), Some(1000), Some(2000))]},
     listings |-> {<<>>, <<Ymd(300)>>},
     chains |-> QuoteChains]

(* three eligible expirations, one-contract chains over implied            *)
(* volatilities missing, zero and positive                                 *)
IvChains ==
    {<<>>} \cup
    {<<Contract(10500, Some(800), Some(900), iv, 10)>> :
        iv \in {NaN, Some(0), Some(30), Some(40), Some(50)}}

IvDomain ==
    [universes |-> {<<>>, <<Tickers[1]>>},
     answers |-> {BaseAnswer},
     listings |-> {<<>>, <<Ymd(400), Ymd(Cutoff + 1), Ymd(300)>>},
     chains |-> IvChains]

OptionDomain ==
    [universes |-> {<<>>, <<Tickers[1]>>},
     answers |-> {BaseAnswer},
     listings |-> Listings(MaxListed),
     chains |-> {<<>>, <<CallA>>, <<CallA, CallB>>, <<CallC>>, <<CallD, CallA>>}]

----------------------------------------------------------------------------
(* main and analyze_ticker, one action per step *)

(* The state file of the scheduler, lines 19-22: {} when the file is absent *)
Kinds == <<"reply", "synthesis", "original">>

NoCounts == [reply |-> 0, synthesis |-> 0, original |-> 0]

NoState == [week |-> -1, quota |-> NoCounts, done |-> NoCounts, next_due_ts |-> 0]

NoOut == [due |-> FALSE, action |-> "", state |-> NoState]

----------------------------------------------------------------------------
(* build_report, lines 692-764: the numbers of the report.  top_n is      *)
(* max(1, args.top), so the Top list is empty exactly when clean is.       *)
Passed3(x) == x.layer1_pass /\ x.layer2_pass /\ x.layer3_pass

(* lines 749-752 *)
Layer1Eliminated(x) == ~x.layer1_pass
Layer2Eliminated(x) == x.layer1_pass /\ ~x.layer2_pass
Layer3Eliminated(x) == x.layer1_pass /\ x.layer2_pass /\ ~x.layer3_pass
ProcessingError(x) == x.reason[1] = "processing failed"

FAILED_SAMPLES == 10

NoStatistics == [l1_fail |-> -1, l2_fail |-> -1, l3_fail |-> -1, err_cnt |-> -1]

(* processing failures counted apart from the Layer 1 eliminations *)
BuildReportErrorsApart(res) ==
    LET passed == SelectSeq(res, Passed3)
        clean == SelectSeq(passed, LAMBDA x : x.sanity_flags = None)
        flagged == SelectSeq(passed, LAMBDA x : x.sanity_flags # None)
        failed == SelectSeq(res, LAMBDA x : ~Passed3(x))
    IN IF clean = <<>> /\ flagged = <<>>
       THEN [passed |-> Len(passed), clean |-> Len(clean), flagged |-> Len(flagged),
             failed_samples |-> SubSeq(failed, 1, IF Len(failed) < FAILED_SAMPLES THEN Len(failed)
                                                  ELSE FAILED_SAMPLES),
             has_statistics |-> FALSE, statistics |-> NoStatistics]
       ELSE [passed |-> Len(passed), clean |-> Len(clean), flagged |-> Len(flagged),
             failed_samples |-> <<>>,
             has_statistics |-> TRUE,
             statistics |->
                 [l1_fail |-> Len(SelectSeq(res, LAMBDA x : Layer1Eliminated(x)
                                                     /\ ~ProcessingError(x))),
                  l2_fail |-> Len(SelectSeq(res, Layer2Eliminated)),
                  l3_fail |-> Len(SelectSeq(res, Layer3Eliminated)),
                  err_cnt |-> Len(SelectSeq(res, ProcessingError))]]

build_report(res) ==
    LET passed == SelectSeq(res, Passed3)
        clean == SelectSeq(passed, LAMBDA x : x.sanity_flags = None)
        flagged == SelectSeq(passed, LAMBDA x : x.sanity_flags # None)
        failed == SelectSeq(res, LAMBDA x : ~Passed3(x))
    IN IF clean = <<>> /\ flagged = <<>>
       THEN [passed |-> Len(passed), clean |-> Len(clean), flagged |-> Len(flagged),
             failed_samples |-> SubSeq(failed, 1, IF Len(failed) < FAILED_SAMPLES THEN Len(failed)
                                                  ELSE FAILED_SAMPLES),
             has_statistics |-> FALSE, statistics |-> NoStatistics]
       ELSE [passed |-> Len(passed), clean |-> Len(clean), flagged |-> Len(flagged),
             failed_samples |-> <<>>,
             has_statistics |-> TRUE,
             statistics |->
                 [l1_fail |-> Len(SelectSeq(res, Layer1Eliminated)),
                  l2_fail |-> Len(SelectSeq(res, Layer2Eliminated)),
                  l3_fail |-> Len(SelectSeq(res, Layer3Eliminated)),
                  err_cnt |-> Len(SelectSeq(res, ProcessingError))]]

Init(D) ==
    /\ universe \in D.universes
    /\ require_volume_spike \in BOOLEAN
    /\ pc = "main"
    /\ i = 0
    /\ results = <<>>
    /\ exit_status = None
    /\ info = NoInfo
    /\ hist = NoHist
    /\ qearn = NoQuarterly
    /\ ev = NoEvidence
    /\ sel = NoSel
    /\ opt = NoOption
    /\ r = ProcessingFailed("", "")
    /\ calls = <<>>
    /\ report = None
    /\ state = NoState
    /\ clock = 0
    /\ out = NoOut

Ticker == universe[i]

(* main, lines 793-795 *)
EmptyUniverse ==
    /\ pc = "main"
    /\ universe = <<>>
    /\ calls' = Append(calls, Call("print", 0, FALSE))
    /\ exit_status' = Some(1)
    /\ pc' = "exit"
    /\ UNCHANGED <<universe, require_volume_spike, i, results, info, hist, qearn,
                   ev, sel, opt, r,
                   report, state, clock, out>>

(* the test of line 793 left out *)
StartScanUnchecked ==
    /\ pc = "main"
    /\ i' = 1
    /\ pc' = "loop"
    /\ UNCHANGED <<universe, require_volume_spike, results, exit_status, info, hist,
                   qearn, ev, sel, opt, r, calls,
                   report, state, clock, out>>

(* main, lines 797-801 *)
StartScan ==
    /\ pc = "main"
    /\ universe # <<>>
    /\ i' = 1
    /\ pc' = "loop"
    /\ UNCHANGED <<universe, require_volume_spike, results, exit_status, info, hist,
                   qearn, ev, sel, opt, r, calls,
                   report, state, clock, out>>

(* main, line 802: the call of analyze_ticker on the next ticker *)
NextTicker ==
    /\ pc = "loop"
    /\ i <= Len(universe)
    /\ pc' = "fetch"
    /\ UNCHANGED <<universe, require_volume_spike, i, results, exit_status, info,
                   hist, qearn, ev, sel, opt, r, calls,
                   report, state, clock, out>>

(* main, lines 807-817 *)
Report ==
    /\ pc = "loop"
    /\ i > Len(universe)
    /\ report' = Some(build_report(results))
    /\ calls' = Append(calls, Call("print", 0, FALSE))
    /\ exit_status' = Some(0)
    /\ pc' = "exit"
    /\ UNCHANGED <<universe, require_volume_spike, i, results, info, hist, qearn,
                   ev, sel, opt, r, state, clock, out>>

(* analyze_ticker, lines 418-419 raise: the handler of lines 649-657 *)
InfoRaises ==
    /\ pc = "fetch"
    /\ calls' = calls \o <<Call("info", 0, TRUE)>>
    /\ r' = ProcessingFailed(Ticker, "info")
    /\ pc' = "append"
    /\ UNCHANGED <<universe, require_volume_spike, i, results, exit_status, info,
                   hist, qearn, ev, sel, opt,
                   report, state, clock, out>>

(* analyze_ticker, line 424 raises *)
HistoryRaises ==
    /\ pc = "fetch"
    /\ calls' = calls \o <<Call("info", 0, FALSE), Sleep, Call("history", 0, TRUE)>>
    /\ r' = ProcessingFailed(Ticker, "history")
    /\ pc' = "append"
    /\ UNCHANGED <<universe, require_volume_spike, i, results, exit_status, info,
                   hist, qearn, ev, sel, opt,
                   report, state, clock, out>>

(* analyze_ticker, lines 418-493 *)
Fetch(D) ==
    /\ pc = "fetch"
    /\ \E a \in D.answers :
          /\ info' = InfoOf(a)
          /\ hist' = a.hist
          /\ qearn' = a.qearn
          /\ ev' = Evidence(InfoOf(a), get_technical_metrics(a.hist), a.qearn)
          /\ calls' = calls \o <<Call("info", 0, FALSE), Sleep, Call("history", 0, FALSE),
                                 Call("quarterly_earnings", 0, a.qearn.kind = "raise")>>
    /\ pc' = "layer1"
    /\ UNCHANGED <<universe, require_volume_spike, i, results, exit_status, sel, opt, r,
                   report, state, clock, out>>

(* the early return left out *)
NeverStops(l2) == FALSE

(* if not l1: return, and the same of l2 and l3 *)
StopsAtLayer1(l1) == ~l1
StopsAtLayer2(l2) == ~l2
StopsAtLayer3(l3) == ~l3

(* analyze_ticker, lines 495-531 *)
CheckLayer1 ==
    /\ pc = "layer1"
    /\ IF StopsAtLayer1(Layer1(ev))
       THEN r' = Layer1Failed(Ticker, ev) /\ pc' = "append"
       ELSE r' = r /\ pc' = "layer2"
    /\ UNCHANGED <<universe, require_volume_spike, i, results, exit_status, info,
                   hist, qearn, ev, sel, opt, calls,
                   report, state, clock, out>>

(* analyze_ticker, lines 533-571 *)
CheckLayer2 ==
    /\ pc = "layer2"
    /\ IF StopsAtLayer2(Layer2(ev.tech, require_volume_spike))
       THEN r' = Layer2Failed(Ticker, ev) /\ pc' = "append" /\ calls' = calls
       ELSE /\ r' = r
            /\ pc' = "options"
            /\ calls' = Append(calls, Call("get_option_metrics", Spot(ev), FALSE))
    /\ UNCHANGED <<universe, require_volume_spike, i, results, exit_status, info,
                   hist, qearn, ev, sel, opt,
                   report, state, clock, out>>

(* get_option_metrics, line 220 raises: analyze_ticker's handler *)
OptionsRaises ==
    /\ pc = "options"
    /\ calls' = Append(calls, Call("options", 0, TRUE))
    /\ r' = ProcessingFailed(Ticker, "options")
    /\ pc' = "append"
    /\ UNCHANGED <<universe, require_volume_spike, i, results, exit_status, info,
                   hist, qearn, ev, sel, opt,
                   report, state, clock, out>>

(* get_option_metrics, lines 220-262 *)
ListOptions(D) ==
    /\ pc = "options"
    /\ \E options \in D.listings :
          LET valid == valid_expiries(options)
          IN IF options = <<>>
             THEN /\ opt' = OptFail("no option chain")
                  /\ sel' = [sel EXCEPT !.options = options]
                  /\ pc' = "layer3"
             ELSE IF valid = <<>>
             THEN /\ opt' = OptFail("no expiration beyond 9 months")
                  /\ sel' = [sel EXCEPT !.options = options]
                  /\ pc' = "layer3"
             ELSE /\ sel' = [options |-> options, valid_expiries |-> valid,
                             preferred_expiry |-> valid[1],
                             k |-> 1, atm_ivs |-> <<>>, chosen_call |-> None]
                  /\ opt' = opt
                  /\ pc' = "chain1"
    /\ calls' = Append(calls, Call("options", 0, FALSE))
    /\ UNCHANGED <<universe, require_volume_spike, i, results, exit_status, info,
                   hist, qearn, ev, r,
                   report, state, clock, out>>

(* get_option_metrics, lines 264-277: one lookup of the first loop *)
FirstLoopLookup(D) ==
    /\ pc = "chain1"
    /\ sel.k <= Len(sel.valid_expiries)
    /\ \E chain \in D.chains :
          LET expiry == sel.valid_expiries[sel.k]
              atm == pick_atm_call(chain, Spot(ev))
          IN /\ sel' = [sel EXCEPT
                          !.k = @ + 1,
                          !.atm_ivs = CollectIv(@, atm),
                          !.chosen_call = IF atm # None /\ expiry = sel.preferred_expiry
                                          THEN atm ELSE @]
             /\ calls' = calls \o <<Lookup(expiry, chain), Sleep>>
    /\ UNCHANGED <<universe, require_volume_spike, pc, i, results, exit_status, info,
                   hist, qearn, ev, opt, r,
                   report, state, clock, out>>

(* lines 276-277: the lookup raises, the expiration is skipped *)
FirstLoopRaises ==
    /\ pc = "chain1"
    /\ sel.k <= Len(sel.valid_expiries)
    /\ sel' = [sel EXCEPT !.k = @ + 1]
    /\ calls' = Append(calls, Call("option_chain", sel.valid_expiries[sel.k], TRUE))
    /\ UNCHANGED <<universe, require_volume_spike, pc, i, results, exit_status, info,
                   hist, qearn, ev, opt, r,
                   report, state, clock, out>>

(* lines 279-280 and, with a chosen call, lines 305-342 *)
FirstLoopEnds ==
    /\ pc = "chain1"
    /\ sel.k > Len(sel.valid_expiries)
    /\ IF sel.chosen_call = None
       THEN sel' = [sel EXCEPT !.k = 1] /\ opt' = opt /\ pc' = "chain2"
       ELSE /\ opt' = OptMetrics(Val(sel.chosen_call), sel.preferred_expiry,
                                 sel.atm_ivs, Spot(ev))
            /\ sel' = sel
            /\ pc' = "layer3"
    /\ UNCHANGED <<universe, require_volume_spike, i, results, exit_status, info,
                   hist, qearn, ev, r, calls,
                   report, state, clock, out>>

(* lines 281-288: one lookup of the fallback loop *)
SecondLoopLookup(D) ==
    /\ pc = "chain2"
    /\ sel.k <= Len(sel.valid_expiries)
    /\ \E chain \in D.chains :
          LET expiry == sel.valid_expiries[sel.k]
              atm == pick_atm_call(chain, Spot(ev))
          IN /\ IF atm = None
                THEN sel' = [sel EXCEPT !.k = @ + 1] /\ opt' = opt /\ pc' = pc
                ELSE /\ sel' = [sel EXCEPT !.preferred_expiry = expiry,
                                           !.chosen_call = atm]
                     /\ opt' = OptMetrics(Val(atm), expiry, sel.atm_ivs, Spot(ev))
                     /\ pc' = "layer3"
             /\ calls' = Append(calls, Lookup(expiry, chain))
    /\ UNCHANGED <<universe, require_volume_spike, i, results, exit_status, info,
                   hist, qearn, ev, r,
                   report, state, clock, out>>

(* lines 289-290 *)
SecondLoopRaises ==
    /\ pc = "chain2"
    /\ sel.k <= Len(sel.valid_expiries)
    /\ sel' = [sel EXCEPT !.k = @ + 1]
    /\ calls' = Append(calls, Call("option_chain", sel.valid_expiries[sel.k], TRUE))
    /\ UNCHANGED <<universe, require_volume_spike, pc, i, results, exit_status, info,
                   hist, qearn, ev, opt, r,
                   report, state, clock, out>>

(* lines 292-303 *)
SecondLoopEnds ==
    /\ pc = "chain2"
    /\ sel.k > Len(sel.valid_expiries)
    /\ opt' = OptFail("no usable ATM call")
    /\ pc' = "layer3"
    /\ UNCHANGED <<universe, require_volume_spike, i, results, exit_status, info,
                   hist, qearn, ev, sel, r, calls,
                   report, state, clock, out>>

(* analyze_ticker, lines 572-596 *)
CheckLayer3 ==
    /\ pc = "layer3"
    /\ IF StopsAtLayer3(opt.layer3_pass)
       THEN r' = Layer3Failed(Ticker, ev, opt) /\ pc' = "append"
       ELSE r' = r /\ pc' = "score"
    /\ UNCHANGED <<universe, require_volume_spike, i, results, exit_status, info,
                   hist, qearn, ev, sel, opt, calls,
                   report, state, clock, out>>

(* analyze_ticker, lines 598-647 *)
Score ==
    /\ pc = "score"
    /\ r' = Passed(Ticker, ev, opt)
    /\ calls' = Append(calls, Call("score_stock", 0, FALSE))
    /\ pc' = "append"
    /\ UNCHANGED <<universe, require_volume_spike, i, results, exit_status, info,
                   hist, qearn, ev, sel, opt,
                   report, state, clock, out>>

(* a failed ticker is not recorded *)
CollectSkipsFailures(rs, res) ==
    IF res.reason[1] = "processing failed" THEN rs ELSE Append(rs, res)

(* results.insert(0, r) *)
CollectInFront(rs, res) == <<res>> \o rs

(* main, lines 803-805: the locals of analyze_ticker are gone *)
Collect(rs, res) == Append(rs, res)

AppendResult ==
    /\ pc = "append"
    /\ results' = Collect(results, r)
    /\ i' = i + 1
    /\ calls' = <<Sleep>>
    /\ info' = NoInfo
    /\ hist' = NoHist
    /\ qearn' = NoQuarterly
    /\ ev' = NoEvidence
    /\ sel' = NoSel
    /\ opt' = NoOption
    /\ pc' = "loop"
    /\ UNCHANGED <<universe, require_volume_spike, exit_status, r,
                   report, state, clock, out>>

Step(D) ==
    \/ EmptyUniverse
    \/ StartScan
    \/ NextTicker
    \/ Report
    \/ InfoRaises
    \/ HistoryRaises
    \/ Fetch(D)
    \/ CheckLayer1
    \/ CheckLayer2
    \/ OptionsRaises
    \/ ListOptions(D)
    \/ FirstLoopLookup(D)
    \/ FirstLoopRaises
    \/ FirstLoopEnds
    \/ SecondLoopLookup(D)
    \/ SecondLoopRaises
    \/ SecondLoopEnds
    \/ CheckLayer3
    \/ Score
    \/ AppendResult

Next == Step(ScanDomain)
Spec == Init(ScanDomain) /\ [][Next]_vars

(* main is one sequential thread: a step that can be taken is taken *)
LiveSpec == Init(ScanDomain) /\ [][Next]_vars /\ WF_vars(Next)

FunnelNext == Step(FunnelDomain)
FunnelSpec == Init(FunnelDomain) /\ [][FunnelNext]_vars

OptionNext == Step(OptionDomain)
OptionSpec == Init(OptionDomain) /\ [][OptionNext]_vars

(* score_stock called on its own: the metrics are drawn at the start, the  *)
(* score is left in r.  The drawdowns lie on both sides of every boundary  *)
(* of lines 380-387.                                                       *)
ScorerDrawdowns ==
    {None, Some(-4200), Some(-4001), Some(-4000), Some(-3999), Some(-2501),
     Some(-2500), Some(-1800), Some(-500), Some(-499), Some(0)}

ScorerEvidence ==
    {[NoEvidence EXCEPT !.peg = peg,
                        !.tech = [AbsentTech EXCEPT !.drawdown_52w_pct = dd,
                                                    !.rsi14 = rsi,
                                                    !.vol_ratio = vr]] :
        dd \in ScorerDrawdowns, rsi \in {None, Some(30), Some(45)},
        vr \in {None, Some(200)}, peg \in {None, Some(120)}}

ScorerInit ==
    /\ universe = <<>>
    /\ require_volume_spike = FALSE
    /\ pc = "score_stock"
    /\ i = 0
    /\ results = <<>>
    /\ exit_status = None
    /\ info = NoInfo
    /\ hist = NoHist
    /\ qearn = NoQuarterly
    /\ ev \in ScorerEvidence
    /\ sel = NoSel
    /\ opt = NoOption
    /\ r = ProcessingFailed("", "")
    /\ calls = <<>>
    /\ report = None
    /\ state = NoState
    /\ clock = 0
    /\ out = NoOut

ScoreStockCall ==
    /\ pc = "score_stock"
    /\ r' = [r EXCEPT !.score = score_stock(Metrics(ev, opt))]
    /\ calls' = Append(calls, Call("score_stock", 0, FALSE))
    /\ pc' = "scored"
    /\ UNCHANGED <<universe, require_volume_spike, i, results, exit_status, info,
                   hist, qearn, ev, sel, opt,
                   report, state, clock, out>>

ScorerNext == ScoreStockCall
ScorerSpec == ScorerInit /\ [][ScorerNext]_vars

QuoteNext == Step(QuoteDomain)
QuoteSpec == Init(QuoteDomain) /\ [][QuoteNext]_vars

IvNext == Step(IvDomain)
IvSpec == Init(IvDomain) /\ [][IvNext]_vars

PickNext == Step(PickDomain)
PickSpec == Init(PickDomain) /\ [][PickNext]_vars

----------------------------------------------------------------------------
(* The scheduler, scheduler.py.  Time is counted in hours from the start   *)
(* of an ISO week, and a run takes no time.                                *)

HOURS_PER_WEEK == 168

REPLY_QUOTA_MIN == 18
SYNTHESIS_QUOTA_MIN == 2
ORIGINAL_QUOTA_MIN == 0

MaxOriginalQuota == 1
MaxOverdone == 1
StartClock == 162
MaxClock == 174

(* lines 6-9: the ISO week of a time *)
week_key(ts) == ts \div HOURS_PER_WEEK

(* lines 26-28: quotas random.randint can draw: the least number of       *)
(* replies and syntheses, and the originals up to the bound                *)
Quotas ==
    [reply : {REPLY_QUOTA_MIN},
     synthesis : {SYNTHESIS_QUOTA_MIN},
     original : ORIGINAL_QUOTA_MIN..MaxOriginalQuota]

(* line 33: the ends of random.randint(3, 8) *)
RolloverDelays == {3, 8}

(* line 49: the ends of random.randint(3, 10) *)
DueDelays == {3, 10}

(* --mark-done, line 15: "" when the option is not given *)
MarkDone == {"", "reply", "synthesis", "original"}

(* lines 24-34 *)
Rollover(st, wk, quota, delay, now) ==
    IF st.week # wk
    THEN [week |-> wk, quota |-> quota, done |-> NoCounts, next_due_ts |-> now + delay]
    ELSE st

(* lines 36-37 *)
Mark(st, kind) ==
    IF kind # "" THEN [st EXCEPT !.done[kind] = @ + 1] ELSE st

(* the first kind chosen whatever is done *)
NextActionIgnoringQuota(done, quota) == "reply"

(* lines 41-48, when due *)
NextAction(done, quota) ==
    IF done.reply < quota.reply THEN "reply"
    ELSE IF done.synthesis < quota.synthesis THEN "synthesis"
    ELSE IF done.original < quota.original THEN "original"
    ELSE "none"

(* main of scheduler.py: one run; the random numbers are drawn only on    *)
(* the branches that draw them                                            *)
SchedulerRun ==
    /\ pc = "scheduler"
    /\ \E kind \in MarkDone :
       \E quota \in IF state.week # week_key(clock) THEN Quotas ELSE {state.quota} :
       \E d1 \in IF state.week # week_key(clock) THEN RolloverDelays ELSE {0} :
       \E d2 \in IF d1 = 0 /\ clock >= state.next_due_ts THEN DueDelays ELSE {0} :
          LET now == clock
              s1 == Rollover(state, week_key(now), quota, d1, now)
              s2 == Mark(s1, kind)
              due == now >= s2.next_due_ts
              action == IF due THEN NextAction(s2.done, s2.quota) ELSE "none"
              s3 == IF due THEN [s2 EXCEPT !.next_due_ts = now + d2] ELSE s2
          IN /\ kind # "" => s1.done[kind] < s1.quota[kind] + MaxOverdone
             /\ state' = s3
             /\ out' = [due |-> due, action |-> action, state |-> s3]
    /\ UNCHANGED <<universe, require_volume_spike, pc, i, results, exit_status,
                   info, hist, qearn, ev, sel, opt, r, calls, report, clock>>

(* an hour passes between runs *)
Tick ==
    /\ pc = "scheduler"
    /\ clock < MaxClock
    /\ clock' = clock + 1
    /\ UNCHANGED <<universe, require_volume_spike, pc, i, results, exit_status,
                   info, hist, qearn, ev, sel, opt, r, calls, report, state, out>>

(* before the first run the state file is absent *)
SchedulerInit ==
    /\ universe = <<>>
    /\ require_volume_spike = FALSE
    /\ pc = "scheduler"
    /\ i = 0
    /\ results = <<>>
    /\ exit_status = None
    /\ info = NoInfo
    /\ hist = NoHist
    /\ qearn = NoQuarterly
    /\ ev = NoEvidence
    /\ sel = NoSel
    /\ opt = NoOption
    /\ r = ProcessingFailed("", "")
    /\ calls = <<>>
    /\ report = None
    /\ state = NoState
    /\ clock = StartClock
    /\ out = NoOut

SchedulerNext == SchedulerRun \/ Tick
SchedulerSpec == SchedulerInit /\ [][SchedulerNext]_vars

----------------------------------------------------------------------------
(* Properties *)

(* analyze_ticker has returned r and main has not yet appended it *)
Returned == pc = "append"

AllPass(res) == res.layer1_pass /\ res.layer2_pass /\ res.layer3_pass

Monotonic(res) ==
    /\ res.layer2_pass => res.layer1_pass
    /\ res.layer3_pass => res.layer2_pass

\* C1: in every result analyze_ticker returns, and in every result main
\* keeps, layer2_pass implies layer1_pass and layer3_pass implies layer2_pass.
LayerFlagsMonotonic ==
    /\ Returned => Monotonic(r)
    /\ \A k \in 1..Len(results) : Monotonic(results[k])

LayerFlagsSwitchAtLayer2 ==
    Returned /\ r.layer1_pass /\ ~r.layer2_pass /\ ~r.layer3_pass
    /\ r.reason = <<"failed Layer 2 technicals">>

\* C2: the score of every result lies in [0,100] (0..10000 hundredths) and
\* is 0 whenever one of the three layer flags is false.
ScoreBounded ==
    Returned => /\ 0 <= r.score /\ r.score <= 10000
                /\ ~AllPass(r) => r.score = 0

ScoredPass == Returned /\ AllPass(r) /\ r.score > 0 /\ info.targetMeanPrice = Some(300)

RevenueSuspect ==
    LET v == safe_float(info.revenueGrowth) IN IsSome(v) /\ Val(v) > REV_GROWTH_CAP

QuarterlySuspect ==
    LET v == safe_float(info.earningsGrowth) IN IsSome(v) /\ Abs(Val(v)) > EPS_GROWTH_CAP

ForwardSuspect ==
    LET t == safe_float(info.trailingEps)
        f == safe_float(info.forwardEps)
        g == ForwardGrowth(t, f)
    IN \/ IsSome(g) /\ Abs(Val(g)) > EPS_GROWTH_CAP
       \/ IsSome(t) /\ Abs(Val(t)) < 50 /\ IsSome(f) /\ Val(f) > 500

\* C3: a growth field a sanity rule nulls is absent from the evidence, does
\* not satisfy a Layer 1 clause (revenue growth above 200% always fails
\* Layer 1; with one EPS growth nulled Layer 1 passes only on the other) and
\* is not the EPS growth the score is computed from.
NulledFieldsNeverCount ==
    /\ RevenueSuspect =>
          /\ ev.rev_growth = None
          /\ ~Layer1(ev)
          /\ Returned => ~r.layer1_pass /\ r.revenue_growth = None /\ r.score = 0
    /\ QuarterlySuspect =>
          /\ ev.eps_growth = None
          /\ (Returned /\ r.layer1_pass) =>
                /\ r.eps_growth = None
                /\ IsSome(ev.eps_growth_forward)
                /\ Val(ev.eps_growth_forward) > EPS_GROWTH_MIN
          /\ (Returned /\ AllPass(r)) =>
                Metrics(ev, opt).eps_growth = ev.eps_growth_forward
    /\ ForwardSuspect =>
          /\ ev.eps_growth_forward = None
          /\ (Returned /\ r.layer1_pass) =>
                /\ r.eps_growth_forward = None
                /\ IsSome(ev.eps_growth) /\ Val(ev.eps_growth) > EPS_GROWTH_MIN
          /\ (Returned /\ AllPass(r)) => Metrics(ev, opt).eps_growth = ev.eps_growth

NulledQuarterlyStillScored ==
    Returned /\ AllPass(r) /\ QuarterlySuspect /\ "eps_q" \in {ev.sanity_flags[k] : k \in 1..Len(ev.sanity_flags)}

TechAbsent(res) ==
    /\ res.current_price = None /\ res.rsi14 = None /\ res.drawdown_52w_pct = None
    /\ res.vol_ratio = None /\ res.vol_spike = None

EmptyHistory == hist.frame /\ hist.bars = 0

\* C4 as stated: with an empty price history the technical metrics are
\* absent and the result fails at Layer 2 with the technical layer's reason.
EmptyHistoryFailsAtLayer2 ==
    (Returned /\ EmptyHistory) =>
        /\ TechAbsent(r)
        /\ r.layer1_pass /\ ~r.layer2_pass
        /\ r.reason = <<"failed Layer 2 technicals">>

\* C4 amended: with an empty price history the technical metrics are absent,
\* so is the upside, and the result fails at Layer 1 with the fundamentals
\* reason; the Layer 2 condition is false as well.
EmptyHistoryFailsAtLayer1 ==
    (Returned /\ EmptyHistory) =>
        /\ TechAbsent(r)
        /\ r.upside = None
        /\ ~r.layer1_pass /\ ~r.layer2_pass /\ ~r.layer3_pass
        /\ r.reason = <<"failed Layer 1 fundamentals">>
        /\ ~Layer2(ev.tech, require_volume_spike)

EmptyHistoryReturned ==
    Returned /\ EmptyHistory /\ info = InfoOf(BaseAnswer) /\ ~require_volume_spike

TwoDistinct(ivs) == \E a, b \in 1..Len(ivs) : ivs[a] # ivs[b]

ChosenIv == IF sel.chosen_call = None THEN None
            ELSE safe_float(Val(sel.chosen_call).impliedVolatility)

\* C5 as stated: when the selector returns a contract, the IV-rank proxy is
\* defined iff two distinct positive ATM IVs were collected.
IvRankIffTwoDistinct ==
    opt.layer3_pass => (IsSome(opt.iv_rank) <=> TwoDistinct(sel.atm_ivs))

\* C5 amended: when the selector returns a contract, the IV-rank proxy is
\* defined iff the chosen contract's IV is present and two distinct positive
\* ATM IVs were collected.
IvRankIffChosenIvAndTwoDistinct ==
    opt.layer3_pass =>
        (IsSome(opt.iv_rank) <=> (IsSome(ChosenIv) /\ TwoDistinct(sel.atm_ivs)))

IvRankDefined == pc = "layer3" /\ opt.layer3_pass /\ IsSome(opt.iv_rank)

Answered(k) == calls[k].call = "option_chain" /\ ~calls[k].raised

Quoted(c) ==
    /\ safe_float(c.bid) # None /\ safe_float(c.ask) # None
    /\ Val(safe_float(c.ask)) > 0

OptionFieldsAbsent(o) ==
    /\ o.expiry = None /\ o.strike = None /\ o.bid = None /\ o.ask = None
    /\ o.spread_pct = None /\ o.iv_rank = None /\ o.required_move_for_2x_pct = None

ResultOptionFieldsAbsent(res) ==
    /\ res.leap_expiry = None /\ res.leap_strike = None /\ res.call_bid = None
    /\ res.call_ask = None /\ res.call_spread_pct = None /\ res.iv_rank = None
    /\ res.required_move_for_2x_pct = None

QuoteSeen ==
    \E k \in 1..Len(calls) :
        /\ Answered(k) /\ calls[k].arg > Cutoff
        /\ \E j \in 1..Len(calls[k].chain) : Quoted(calls[k].chain[j])

ContractSeen ==
    \E k \in 1..Len(calls) :
        Answered(k) /\ calls[k].arg > Cutoff /\ calls[k].chain # <<>>

\* C6 as stated: Layer 3 passes only when a contract of an eligible
\* expiration has a usable bid/ask quote; otherwise it fails and every
\* option field is absent.
OptionFieldsNeedQuote ==
    /\ opt.layer3_pass => QuoteSeen
    /\ ~QuoteSeen => ~opt.layer3_pass /\ OptionFieldsAbsent(opt)

\* C6 amended: Layer 3 passes, with expiry and strike populated, only when a
\* lookup of an eligible expiration returned a contract; spread and required
\* move are populated only when the chosen contract has a usable bid/ask
\* quote; when Layer 3 fails, every option field of the selector's answer
\* and of the result is absent.
OptionFieldsNeedContract ==
    /\ opt.layer3_pass =>
          /\ ContractSeen
          /\ IsSome(opt.expiry) /\ Val(opt.expiry) > Cutoff
          /\ IsSome(opt.strike)
    /\ (IsSome(opt.spread_pct) \/ IsSome(opt.required_move_for_2x_pct)) =>
          /\ sel.chosen_call # None /\ Quoted(Val(sel.chosen_call))
          /\ IsSome(opt.bid) /\ IsSome(opt.ask)
    /\ ~ContractSeen => ~opt.layer3_pass
    /\ ~opt.layer3_pass => OptionFieldsAbsent(opt)
    /\ (Returned /\ ~r.layer3_pass) => ResultOptionFieldsAbsent(r)

PassedWithoutQuote ==
    pc = "layer3" /\ opt.layer3_pass /\ ~QuoteSeen /\ opt.spread_pct = None
    /\ IsSome(opt.strike)

ProcessingFailure(res) ==
    /\ ~res.layer1_pass /\ ~res.layer2_pass /\ ~res.layer3_pass
    /\ res.score = 0
    /\ res.reason[1] = "processing failed"

Raised(names) == \E k \in 1..Len(calls) : calls[k].raised /\ calls[k].call \in names

Collaborators == {"info", "history", "quarterly_earnings", "options", "option_chain"}

ScanComplete ==
    /\ (pc = "exit" /\ universe # <<>>) =>
          exit_status = Some(0) /\ Len(results) = Len(universe)
    /\ pc # "exit" => exit_status = None

\* C7 as stated: whichever collaborator call raises, the ticker's result is
\* the processing-failed one, and the scan goes on.
AnyRaiseFailsTicker ==
    /\ (Returned /\ Raised(Collaborators)) => ProcessingFailure(r)
    /\ ScanComplete

\* C7 amended: a raise of tk.info, tk.history or tk.options gives the
\* processing-failed result (flags false, score 0); a raise of
\* tk.quarterly_earnings or of a chain lookup is swallowed where it occurs
\* and leaves the funnel's verdict to the layers; in every case the scan
\* ends with one result per ticker and status 0.
UnguardedRaiseFailsTicker ==
    /\ (Returned /\ Raised({"info", "history", "options"})) => ProcessingFailure(r)
    /\ (Returned /\ r.reason[1] = "processing failed") =>
          Raised({"info", "history", "options"})
    /\ ScanComplete

ScanOutlivesFailure ==
    /\ pc = "exit" /\ Len(results) = 2
    /\ ProcessingFailure(results[1]) /\ AllPass(results[2])

\* C8: the results are the records of the tickers scanned so far, one per
\* ticker, in the order of the universe; after the scan there is one for
\* every ticker.
ResultsFollowUniverse ==
    /\ Len(results) <= Len(universe)
    /\ \A k \in 1..Len(results) : results[k].ticker = universe[k]
    /\ pc \in {"loop", "exit"} /\ universe # <<>> => Len(results) = i - 1
    /\ (pc = "exit" /\ exit_status = Some(0)) => Len(results) = Len(universe)

MixedScanDone ==
    /\ pc = "exit" /\ Len(results) = 2
    /\ AllPass(results[1]) /\ results[2].reason # <<"passed all layers">>

\* C9: get_option_metrics (and every option call under it) is made only after
\* Layer 1 and Layer 2 passed, score_stock only after all three passed; a
\* result that failed a layer saw no later stage.
FunnelOrder ==
    /\ (Made("get_option_metrics") \/ Made("options") \/ Made("option_chain")) =>
          Layer1(ev) /\ Layer2(ev.tech, require_volume_spike)
    /\ Made("score_stock") =>
          /\ Layer1(ev) /\ Layer2(ev.tech, require_volume_spike) /\ opt.layer3_pass
          /\ Made("get_option_metrics")
    /\ (Returned /\ ~r.layer2_pass /\ r.reason[1] # "processing failed") =>
          ~Made("get_option_metrics") /\ ~Made("option_chain") /\ ~Made("score_stock")
    /\ (Returned /\ ~r.layer3_pass) => ~Made("score_stock")

ScoredAfterThreeLayers ==
    Returned /\ Made("score_stock") /\ Made("option_chain") /\ AllPass(r)

\* C10 as stated: whatever lookups raise, Layer 3 passes once one lookup of
\* an eligible expiration has returned a chain with an ATM contract.
AnsweredLookupPassesLayer3 ==
    (pc = "layer3" /\ ContractSeen) => opt.layer3_pass

Lookups == SelectSeq(calls, LAMBDA c : c.call = "option_chain")

Selecting == pc \in {"layer3", "score", "append"} /\ sel.valid_expiries # <<>>

(* the lookups of the first loop (lines 264-277) and of the fallback loop *)
(* (lines 281-290), one per eligible expiration in the order of the loop  *)
FirstLookups == SubSeq(Lookups, 1, Len(sel.valid_expiries))
FallbackLookups == SubSeq(Lookups, Len(sel.valid_expiries) + 1, Len(Lookups))

Yields(c) == ~c.raised /\ pick_atm_call(c.chain, Spot(ev)) # None

Ascending(s) == \A a, b \in 1..Len(s) : a < b => s[a] < s[b]

FirstYielding(ls) == CHOOSE j \in 1..Len(ls) : Yields(ls[j]) /\ \A h \in 1..(j - 1) : ~Yields(ls[h])

ChosenFrom(c) ==
    /\ opt.layer3_pass
    /\ sel.chosen_call = pick_atm_call(c.chain, Spot(ev))
    /\ opt.expiry = Some(c.arg)
    /\ opt.strike = safe_float(Val(sel.chosen_call).strike)

NoUsableAtm ==
    /\ opt = OptFail("no usable ATM call")
    /\ Returned => r.reason = <<"failed Layer 3 options", "no usable ATM call">>

Above(o, min) == o # None /\ Val(o) > min
Below(o, max) == o # None /\ Val(o) < max

Layer1Clauses(res) ==
    /\ Above(res.revenue_growth, 1000)
    /\ (Above(res.eps_growth, 1500) \/ Above(res.eps_growth_forward, 1500))
    /\ Below(res.peg, 200)
    /\ Above(res.market_cap, 5)
    /\ Above(res.upside, 1500)

\* C12: a result has layer1_pass set iff its post-sanity fields satisfy
\* revenue growth > 10%, quarterly or forward EPS growth > 15%, PEG < 2.0,
\* market cap > $5B and upside > 15%, all strict, an absent field failing its
\* clause; the funnel goes past Layer 1 only then.
Layer1IffClauses ==
    /\ Returned => (r.layer1_pass <=> Layer1Clauses(r))
    /\ pc \in {"layer2", "options", "chain1", "chain2", "layer3", "score"} =>
          Layer1Clauses(Layer1Failed(Ticker, ev))

ForwardGrowthAlonePasses ==
    /\ Returned /\ r.layer1_pass
    /\ r.eps_growth = None /\ r.eps_growth_forward = Some(2000)

Layer2Clauses(res) == Below(res.rsi14, 60) /\ Above(res.drawdown_52w_pct, -3500)

ReachedLayer2(res) == res.layer1_pass

\* C13: a result that reached Layer 2 has layer2_pass set iff RSI(14) < 60
\* and drawdown > -35% (both present, strict) and, when the strict-volume flag
\* is set, the volume spike is true; with the flag off the outcome is that of
\* the two clauses alone, whatever the volume spike.
Layer2IffClauses ==
    (Returned /\ ReachedLayer2(r)) =>
        /\ require_volume_spike =>
              (r.layer2_pass <=> (Layer2Clauses(r) /\ r.vol_spike = Some(TRUE)))
        /\ ~require_volume_spike => (r.layer2_pass <=> Layer2Clauses(r))

AbsentSpikeFailsStrictMode ==
    /\ Returned /\ ReachedLayer2(r) /\ require_volume_spike
    /\ Layer2Clauses(r) /\ r.vol_spike = None /\ ~r.layer2_pass

Aborted == pc = "exit" /\ exit_status = Some(1)

NoTickerWork ==
    /\ results = <<>> /\ i = 0
    /\ info = NoInfo /\ hist = NoHist /\ ev = NoEvidence /\ opt = NoOption
    /\ \A k \in 1..Len(calls) : calls[k].call = "print"

AbortOnlyOnEmptyUniverse ==
    /\ exit_status = Some(1) => (pc = "exit" /\ universe = <<>>)
    /\ universe = <<>> => NoTickerWork
    /\ (pc = "exit" /\ universe = <<>>) =>
          exit_status = Some(1) /\ calls = <<Call("print", 0, FALSE)>>
    /\ (pc = "exit" /\ universe # <<>>) =>
          exit_status = Some(0) /\ Len(results) = Len(universe)

\* C14: main returns the failure status only for an empty universe, after
\* one message and with no ticker analysed and no collaborator called; with a
\* non-empty universe the run always reaches the report and returns 0.
RunAbortsOnlyOnEmptyUniverse ==
    /\ []AbortOnlyOnEmptyUniverse
    /\ [](universe # <<>> => <>(pc = "exit" /\ exit_status = Some(0)))

EmptyUniverseAborted == Aborted /\ universe = <<>> /\ Len(calls) = 1

EvidenceOf(res) ==
    <<res.current_price, res.revenue_growth, res.eps_growth, res.eps_growth_forward,
      res.trailing_eps, res.forward_eps, res.peg, res.market_cap, res.upside,
      res.rsi14, res.drawdown_52w_pct, res.vol_spike, res.vol_ratio,
      res.sanity_flags>>

FailedAt(res) ==
    IF res.reason[1] = "processing failed" THEN 0
    ELSE IF ~res.layer1_pass THEN 1
    ELSE IF ~res.layer2_pass THEN 2
    ELSE IF ~res.layer3_pass THEN 3
    ELSE 4

\* C15: a result that failed Layer 1, 2 or 3 carries the post-sanity
\* fundamentals, the technical metrics and the sanity flags exactly as a
\* passing result of the same evidence would, its reason names the layer
\* that failed, and no later stage was run.
FailureKeepsEvidence ==
    (Returned /\ FailedAt(r) \in {1, 2, 3}) =>
        /\ ev = Evidence(info, get_technical_metrics(hist), qearn)
        /\ EvidenceOf(r) = EvidenceOf(Passed(Ticker, ev, opt))
        /\ r.score = 0
        /\ FailedAt(r) = 1 =>
              /\ r.reason = <<"failed Layer 1 fundamentals">>
              /\ ~Made("get_option_metrics") /\ ~Made("score_stock")
        /\ FailedAt(r) = 2 =>
              /\ r.reason = <<"failed Layer 2 technicals">>
              /\ ~Made("get_option_metrics") /\ ~Made("score_stock")
        /\ FailedAt(r) = 3 =>
              /\ r.reason = <<"failed Layer 3 options", opt.reason>>
              /\ opt.reason # "OK"
              /\ ~Made("score_stock")

FlaggedLayer3Failure ==
    /\ Returned /\ FailedAt(r) = 3
    /\ r.sanity_flags = Some(<<"shares">>) /\ IsSome(r.vol_ratio) /\ IsSome(r.peg)

Flags == {ev.sanity_flags[k] : k \in 1..Len(ev.sanity_flags)}

SharesRule ==
    LET so == safe_float(info.sharesOutstanding)
        fs == safe_float(info.floatShares)
    IN so # None /\ fs # None /\ Val(fs) > 0 /\ Val(so) * 10 > Val(fs) * 13

MagnitudeRule ==
    LET g == ForwardGrowth(safe_float(info.trailingEps), safe_float(info.forwardEps))
    IN g # None /\ Abs(Val(g)) > 40000

LowBaseRule ==
    LET t == safe_float(info.trailingEps)
        f == safe_float(info.forwardEps)
    IN t # None /\ Abs(Val(t)) < 50 /\ f # None /\ Val(f) > 500

PrimaryPegRule == LET p == safe_float(info.pegRatio) IN p # None /\ Val(p) < 20

LowPegAlwaysFlagged ==
    /\ (ev.peg # None /\ Val(ev.peg) < 20) => "peg" \in Flags
    /\ PrimaryPegRule => ev.peg = safe_float(info.pegRatio)
    /\ (Returned /\ FailedAt(r) # 0) => r.peg = ev.peg

RawForwardGrowth == ForwardGrowth(safe_float(info.trailingEps), safe_float(info.forwardEps))

RawPeg ==
    IF safe_float(info.pegRatio) # None THEN safe_float(info.pegRatio)
    ELSE safe_float(info.trailingPegRatio)

RawTarget ==
    IF safe_float(info.targetMeanPrice) # None THEN safe_float(info.targetMeanPrice)
    ELSE safe_float(info.targetMedianPrice)

\* C18: the sanity checks change only the three growth rates, each either
\* nulled by its rule or left as fetched; trailing EPS, forward EPS, PEG,
\* market cap, upside and the technical metrics are as fetched whatever
\* rules fired, in the evidence and in the result.
SanityTouchesOnlyGrowth ==
    /\ ev.trailing_eps = safe_float(info.trailingEps)
    /\ ev.forward_eps = safe_float(info.forwardEps)
    /\ ev.peg = RawPeg
    /\ ev.market_cap = safe_float(info.marketCap)
    /\ ev.tech = get_technical_metrics(hist)
    /\ ev.upside = Upside(RawTarget, get_technical_metrics(hist).price)
    /\ ev.rev_growth = IF RevenueSuspect THEN None ELSE safe_float(info.revenueGrowth)
    /\ ev.eps_growth = IF QuarterlySuspect THEN None ELSE safe_float(info.earningsGrowth)
    /\ ev.eps_growth_forward =
          IF MagnitudeRule \/ LowBaseRule THEN None ELSE RawForwardGrowth
    /\ (Returned /\ FailedAt(r) # 0) =>
          /\ r.trailing_eps = ev.trailing_eps /\ r.forward_eps = ev.forward_eps
          /\ r.peg = ev.peg /\ r.market_cap = ev.market_cap

LowBaseKeepsEps ==
    /\ Returned /\ LowBaseRule /\ SharesRule
    /\ r.sanity_flags = Some(<<"shares", "low_base">>)
    /\ r.eps_growth_forward = None
    /\ r.forward_eps = Some(600) /\ r.trailing_eps = Some(0)
    /\ r.peg = Some(120) /\ r.market_cap = Some(50)

Listed == \E k \in 1..Len(calls) : calls[k].call = "options" /\ ~calls[k].raised

StrictlyAfterCutoff ==
    {sel.options[k].day : k \in {k \in 1..Len(sel.options) :
        sel.options[k].fmt = "ymd" /\ sel.options[k].day - Today > 9 * 30}}

Kept == {sel.valid_expiries[k] : k \in 1..Len(sel.valid_expiries)}

\* C19 as stated: the selector keeps exactly the listed expirations strictly
\* after the cutoff, and when none remain Layer 3 fails with the 'no eligible
\* expiration' reason and no chain lookup.
NoneKeptGivesNoEligibleReason ==
    Listed =>
        /\ Kept = StrictlyAfterCutoff
        /\ StrictlyAfterCutoff = {} =>
              /\ opt = OptFail("no expiration beyond 9 months")
              /\ Lookups = <<>>

\* C19 amended: the selector keeps exactly the listed expirations strictly
\* after the cutoff; when none remain Layer 3 fails without any chain lookup,
\* with the 'no eligible expiration' reason when the listing is non-empty and
\* with the 'no option chain' reason when the listing itself is empty.
NoneKeptFailsWithoutLookup ==
    Listed =>
        /\ Kept = StrictlyAfterCutoff
        /\ StrictlyAfterCutoff = {} =>
              /\ opt = OptFail(IF sel.options = <<>> THEN "no option chain"
                               ELSE "no expiration beyond 9 months")
              /\ Lookups = <<>>
              /\ Returned => r.reason = <<"failed Layer 3 options", opt.reason>>
        /\ StrictlyAfterCutoff # {} =>
              opt.reason \notin {"no option chain", "no expiration beyond 9 months"}

CutoffDateExcluded ==
    /\ Returned /\ Listed
    /\ sel.options = <<Junk, Ymd(Cutoff)>>
    /\ r.reason = <<"failed Layer 3 options", "no expiration beyond 9 months">>

LastLookup == Lookups[Len(Lookups)]

Distance(c) == Abs(Val(c.strike) - 100 * Val(ev.price))

\* C20: whenever a lookup returns a non-empty chain, pick_atm_call returns
\* one of its contracts, no contract of the chain is nearer the spot, and no
\* contract at the same distance has a higher open interest (a missing open
\* interest ranking below every number).
AtmIsNearestMostOpen ==
    /\ (Lookups # <<>> /\ ~LastLookup.raised /\ LastLookup.chain # <<>>) =>
          sel.chosen_call # None
    /\ sel.chosen_call # None =>
          LET c == Val(sel.chosen_call)
              chain == LastLookup.chain
          IN /\ \E k \in 1..Len(chain) : chain[k] = c
             /\ \A k \in 1..Len(chain) :
                   /\ Distance(chain[k]) >= Distance(c)
                   /\ (Distance(chain[k]) = Distance(c) /\ chain[k].openInterest # NaN) =>
                         /\ c.openInterest # NaN
                         /\ Val(c.openInterest) >= Val(chain[k].openInterest)

TieBrokenByOpenInterest ==
    /\ sel.chosen_call # None /\ Len(LastLookup.chain) = 3
    /\ LastLookup.chain[3] = Val(sel.chosen_call)
    /\ Distance(LastLookup.chain[1]) > Distance(LastLookup.chain[3])
    /\ Distance(LastLookup.chain[2]) = Distance(LastLookup.chain[3])
    /\ LastLookup.chain[2].openInterest = Some(0)

Chosen == Val(sel.chosen_call)

Present(v) == v # None /\ v # NaN

PremiumPresent(c) == Present(c.bid) /\ Present(c.ask) /\ Val(c.ask) > 0

\* C21: when the selector returns a contract, the required move to double is
\* ((strike + 2 x premium) / spot - 1) x 100 with premium the midpoint of bid
\* and ask (in hundredths of a percent, rounded down), and it is absent when
\* the strike, the premium or the spot is absent or the spot is not positive;
\* spot 100, strike 105, bid 8, ask 9 give 22.0.
RequiredMoveIsTwicePremium ==
    opt.layer3_pass =>
        LET c == Chosen
            spot == IF ev.price = None THEN 0 ELSE Val(ev.price)
            move == opt.required_move_for_2x_pct
        IN /\ (~Present(c.strike) \/ ~PremiumPresent(c) \/ spot <= 0) => move = None
           /\ move # None =>
                 LET twice == Val(c.strike) + Val(c.bid) + Val(c.ask)
                 IN /\ Val(move) * spot <= twice * 100 - 10000 * spot
                    /\ twice * 100 - 10000 * spot < (Val(move) + 1) * spot
           /\ (spot = 100 /\ c.strike = Some(10500) /\ c.bid = Some(800)
                 /\ c.ask = Some(900)) => move = Some(2200)

RequiredMoveOfScenario ==
    /\ pc = "layer3" /\ opt.layer3_pass /\ ev.price = Some(100)
    /\ Chosen.strike = Some(10500) /\ Chosen.bid = Some(800) /\ Chosen.ask = Some(900)
    /\ opt.required_move_for_2x_pct = Some(2200)

\* C22: whenever the IV-rank proxy is defined it lies in [0,100] and is the
\* position of the chosen contract's IV between the least and the greatest
\* collected ATM IV, scaled to 0-100 (in hundredths, rounded down): 0 at or
\* below the least, 100 at or above the greatest; collected IVs 0.30 and 0.50
\* with a chosen IV of 0.40 give 50.0.
IvRankIsClampedPosition ==
    opt.iv_rank # None =>
        LET rank == Val(opt.iv_rank)
            iv == Val(ChosenIv)
            lo == SeqMin(sel.atm_ivs)
            hi == SeqMax(sel.atm_ivs)
        IN /\ 0 <= rank /\ rank <= 10000
           /\ lo < hi
           /\ iv <= lo => rank = 0
           /\ iv >= hi => rank = 10000
           /\ (lo < iv /\ iv < hi) =>
                 /\ rank * (hi - lo) <= (iv - lo) * 10000
                 /\ (iv - lo) * 10000 < (rank + 1) * (hi - lo)
           /\ (lo = 30 /\ hi = 50 /\ iv = 40) => rank = 5000

ChosenIvAboveCollected ==
    /\ pc = "layer3" /\ opt.iv_rank = Some(10000)
    /\ ChosenIv = Some(50) /\ SeqMax(sel.atm_ivs) = 40 /\ SeqMin(sel.atm_ivs) = 30

Scored == pc = "scored"

WithDrawdown(dd) == [ev EXCEPT !.tech.drawdown_52w_pct = Some(dd)]

OnlyDrawdown == [NoEvidence EXCEPT !.tech.drawdown_52w_pct = ev.tech.drawdown_52w_pct]

ScoreAs(dd) == r.score = score_stock(Metrics(WithDrawdown(dd), opt))

HistoryAnswered ==
    \E k \in 1..Len(calls) : calls[k].call = "history" /\ ~calls[k].raised

ShortHistory == ~hist.frame \/ hist.bars < 30

MeanVolumePositive == Present(hist.vol20) /\ Val(hist.vol20) > 0

\* C24: with a price history of fewer than 30 bars (none included) every
\* technical metric is absent and the ticker gets an ordinary funnel result,
\* not a processing failure; with 30 bars or more the volume ratio is defined
\* only if the 20-day mean volume is strictly positive, and the volume spike
\* is true exactly when the latest volume exceeds 1.5 times that mean.
ShortHistoryGivesNoMetrics ==
    HistoryAnswered =>
        /\ ShortHistory =>
              /\ ev.tech = AbsentTech
              /\ Returned => TechAbsent(r) /\ FailedAt(r) = 1
        /\ ~ShortHistory =>
              /\ ev.tech.vol_ratio # None => MeanVolumePositive
              /\ (MeanVolumePositive /\ Present(hist.vol)) => ev.tech.vol_ratio # None
              /\ ev.tech.vol_spike # None <=> ev.tech.vol_ratio # None
              /\ ev.tech.vol_ratio # None =>
                    (Val(ev.tech.vol_spike) <=> 2 * Val(hist.vol) > 3 * Val(hist.vol20))
              /\ ev.tech.price = safe_float(hist.close)

TwentyNineBarsReturned ==
    /\ Returned /\ HistoryAnswered /\ hist.frame /\ hist.bars = 29
    /\ TechAbsent(r) /\ FailedAt(r) = 1

\* C25 as stated: within one run of the selector no expiration is looked up
\* twice, and no expiration at or before the cutoff is looked up at all.
LookupOncePerExpiration ==
    /\ \A a, b \in 1..Len(Lookups) : a # b => Lookups[a].arg # Lookups[b].arg
    /\ \A a \in 1..Len(Lookups) : Lookups[a].arg > Cutoff

\* C26 as stated: a rate-limit delay separates every two consecutive
\* option-chain lookups, whether the earlier one answered or raised.
DelayBetweenLookups ==
    \A a, b \in 1..Len(calls) :
        (a < b /\ calls[a].call = "option_chain" /\ calls[b].call = "option_chain")
            => \E c \in (a + 1)..(b - 1) : calls[c] = Sleep

\* C27: get_option_metrics is only called with a spot equal to a present,
\* strictly positive price: the ticker passed the upside clause of Layer 1,
\* so the 0.0 substitute for a missing price is never the spot.
SelectorSpotIsPrice ==
    \A k \in 1..Len(calls) :
        calls[k].call = "get_option_metrics" =>
            /\ IsSome(ev.upside) /\ Val(ev.upside) > UPSIDE_MIN
            /\ IsSome(ev.price) /\ Val(ev.price) > 0
            /\ calls[k].arg = Val(ev.price)

SelectorCalledAtEightyTwo ==
    /\ \E k \in 1..Len(calls) :
          calls[k].call = "get_option_metrics" /\ calls[k].arg = 82
    /\ ev.price = Some(82)

\* C28 as stated: for every result list the funnel statistics of build_report
\* count each result in exactly one of Layer 1 eliminated, Layer 2 eliminated,
\* Layer 3 eliminated or passed, processing failures among the first.
FunnelStatisticsPartition ==
    report # None =>
        LET rep == Val(report)
            st == rep.statistics
        IN /\ rep.has_statistics
           /\ st.l1_fail = Len(SelectSeq(results, LAMBDA x : FailedAt(x) \in {0, 1}))
           /\ st.l2_fail = Len(SelectSeq(results, LAMBDA x : FailedAt(x) = 2))
           /\ st.l3_fail = Len(SelectSeq(results, LAMBDA x : FailedAt(x) = 3))
           /\ rep.passed = Len(SelectSeq(results, LAMBDA x : FailedAt(x) = 4))
           /\ st.l1_fail + st.l2_fail + st.l3_fail + rep.passed = Len(results)

\* C28 amended: when at least one result passed all three layers, the funnel
\* statistics count each result in exactly one of Layer 1 eliminated, Layer 2
\* eliminated, Layer 3 eliminated or passed, processing failures among the
\* first; when no result passed, build_report returns before the statistics
\* and lists the failed results only.
FunnelStatisticsPartitionWhenPassed ==
    report # None =>
        LET rep == Val(report)
            st == rep.statistics
        IN /\ rep.passed = Len(SelectSeq(results, LAMBDA x : FailedAt(x) = 4))
           /\ rep.has_statistics <=> rep.passed > 0
           /\ rep.has_statistics =>
                 /\ st.l1_fail = Len(SelectSeq(results, LAMBDA x : FailedAt(x) \in {0, 1}))
                 /\ st.l2_fail = Len(SelectSeq(results, LAMBDA x : FailedAt(x) = 2))
                 /\ st.l3_fail = Len(SelectSeq(results, LAMBDA x : FailedAt(x) = 3))
                 /\ st.l1_fail + st.l2_fail + st.l3_fail + rep.passed = Len(results)
           /\ ~rep.has_statistics =>
                 /\ rep.failed_samples = results
                 /\ st = NoStatistics

ProcessingFailureCountedWithPass ==
    /\ report # None
    /\ Val(report).has_statistics
    /\ Val(report).statistics.err_cnt = 1
    /\ Val(report).statistics.l1_fail = 1
    /\ Val(report).passed = 1

(* the scheduler takes a step that is a run, not the passing of an hour *)
RunStep == pc = "scheduler" /\ clock' = clock

\* C29: within one ISO week a scheduler run returns an action other than
\* none only when it is due (now >= next_due_ts); the action is then the
\* first of reply, synthesis, original whose done count is below its quota,
\* never a kind whose done count has reached its quota; and next_due_ts is
\* moved only by a due run or by a week rollover.
SchedulerActsOnlyWhenDue ==
    [][RunStep =>
          LET rolled == state.week # week_key(clock)
              st == out'.state
              below(k) == st.done[k] < st.quota[k]
          IN /\ st = state'
             /\ out'.due <=> (~rolled /\ clock >= state.next_due_ts)
             /\ out'.action # "none" => out'.due
             /\ out'.action # "none" => below(out'.action)
             /\ \A n \in 1..3 :
                   (out'.due /\ below(Kinds[n])
                        /\ \A m \in 1..(n - 1) : ~below(Kinds[m]))
                       => out'.action = Kinds[n]
             /\ (out'.due /\ \A n \in 1..3 : ~below(Kinds[n])) => out'.action = "none"
             /\ state'.next_due_ts # state.next_due_ts => (out'.due \/ rolled)]_vars

SynthesisAfterRepliesDone ==
    /\ out.action = "synthesis"
    /\ out.state.done.reply >= out.state.quota.reply
    /\ out.state.week = week_key(clock)

====
